---- MODULE Spec2Model ----
(***************************************************************************)
(* RLox: a tree-walking Lox interpreter (scanner -> parser -> resolver ->  *)
(* interpreter).  The interpreter's heap (environment frames, functions,   *)
(* classes, instances, callables) is modelled as sequences indexed by      *)
(* reference; every Rc<..> of the program is an index into one of them.    *)
(* The visitors of the resolver and of the interpreter are recursive       *)
(* operators that thread the resolver / interpreter state.                 *)
(***************************************************************************)
EXTENDS Integers, Sequences, FiniteSets, TLC

VARIABLES
    session,            \* the input: mode (file / REPL) and the source texts
    now,                \* what the system clock answers (input)
    line,               \* index of the source text being run
    pc,                 \* position of the driver (run_file / run_prompt / run)
    ip,                 \* Interpreter::interpret: index of the next statement
    interp,             \* the Interpreter and the heap it owns
    HAD_ERROR,          \* lox.rs static
    HAD_RUNTIME_ERROR,  \* lox.rs static
    stderr,             \* diagnostics written by report / runtime_error
    history,            \* per run() call: what was reported and executed
    exit_code

vars == <<session, now, line, pc, ip, interp, HAD_ERROR, HAD_RUNTIME_ERROR,
          stderr, history, exit_code>>

\* ------------------------------------------------------------------------
\* Bounds of the model
\* ------------------------------------------------------------------------
MaxIter == 2        \* iterations of the loops in the sample programs
MaxClock == 1       \* the clock answers 0..MaxClock

\* ------------------------------------------------------------------------
\* token_literal.rs: runtime values
\* ------------------------------------------------------------------------
LOX_NULL == [k |-> "nil"]
LOX_BOOL(b) == [k |-> "bool", b |-> b]
\* LOX_NUMBER(f64) of a whole number n.  An f64 is kept as its class c,
\* "finite", "NaN", "inf" or "-inf", and, when finite, as the fraction n/d in
\* lowest terms with d > 0 (rounding, overflow and the sign of zero are left
\* out)
LOX_NUMBER(n) == [k |-> "num", c |-> "finite", n |-> n, d |-> 1]
LOX_STRING(str) == [k |-> "str", s |-> str]
LOX_CALLABLE(c) == [k |-> "callable", c |-> c]
LOX_INSTANCE(i) == [k |-> "instance", i |-> i]

\* ------------------------------------------------------------------------
\* f64 arithmetic, as used by visit_binary_expr and visit_unary_expr
\* ------------------------------------------------------------------------
NaN == [k |-> "num", c |-> "NaN", n |-> 0, d |-> 1]

Infinity(sign) == [k |-> "num", c |-> IF sign < 0 THEN "-inf" ELSE "inf", n |-> 0, d |-> 1]

RECURSIVE gcd(_, _)
gcd(a, b) == IF b = 0 THEN a ELSE gcd(b, a % b)

abs(n) == IF n < 0 THEN 0 - n ELSE n

\* the finite number n/d, d # 0
ratio(n, d) ==
    [k |-> "num", c |-> "finite",
     n |-> (IF d < 0 THEN 0 - n ELSE n) \div gcd(abs(n), abs(d)),
     d |-> abs(d) \div gcd(abs(n), abs(d))]

\* -1, 0 or 1; NaN has none
sign(x) ==
    CASE x.c = "inf" -> 1
      [] x.c = "-inf" -> -1
      [] OTHER -> IF x.n > 0 THEN 1 ELSE IF x.n < 0 THEN -1 ELSE 0

f64_neg(x) ==
    CASE x.c = "NaN" -> NaN
      [] x.c = "inf" -> Infinity(-1)
      [] x.c = "-inf" -> Infinity(1)
      [] OTHER -> ratio(0 - x.n, x.d)

f64_add(x, y) ==
    CASE x.c = "NaN" \/ y.c = "NaN" -> NaN
      [] x.c # "finite" /\ y.c # "finite" -> IF x.c = y.c THEN x ELSE NaN
      [] x.c # "finite" -> x
      [] y.c # "finite" -> y
      [] OTHER -> ratio(x.n * y.d + y.n * x.d, x.d * y.d)

f64_sub(x, y) == f64_add(x, f64_neg(y))

f64_mul(x, y) ==
    CASE x.c = "NaN" \/ y.c = "NaN" -> NaN
      [] x.c # "finite" \/ y.c # "finite" ->
            IF sign(x) * sign(y) = 0 THEN NaN ELSE Infinity(sign(x) * sign(y))
      [] OTHER -> ratio(x.n * y.n, x.d * y.d)

f64_div(x, y) ==
    CASE x.c = "NaN" \/ y.c = "NaN" -> NaN
      [] x.c # "finite" /\ y.c # "finite" -> NaN
      [] x.c # "finite" -> Infinity(IF sign(y) < 0 THEN 0 - sign(x) ELSE sign(x))
      [] y.c # "finite" -> ratio(0, 1)
      [] y.n = 0 -> IF x.n = 0 THEN NaN ELSE Infinity(sign(x))
      [] OTHER -> ratio(x.n * y.d, x.d * y.n)

\* f64's ==: NaN equals nothing, itself included
f64_eq(x, y) == x.c # "NaN" /\ y.c # "NaN" /\ x = y

f64_lt(x, y) ==
    CASE x.c = "NaN" \/ y.c = "NaN" -> FALSE
      [] x.c = "inf" \/ y.c = "-inf" -> FALSE
      [] x.c = "-inf" \/ y.c = "inf" -> TRUE
      [] OTHER -> x.n * y.d < y.n * x.d

f64_le(x, y) == f64_lt(x, y) \/ f64_eq(x, y)

\* the digits of rem/d after the decimal point, at most `left` of them
RECURSIVE fraction_digits(_, _, _)
fraction_digits(rem, d, left) ==
    IF rem = 0 \/ left = 0
    THEN ""
    ELSE ToString((rem * 10) \div d) \o fraction_digits((rem * 10) % d, d, left - 1)

\* impl Display for f64
f64_display(x) ==
    CASE x.c # "finite" -> x.c
      [] x.d = 1 -> ToString(x.n)
      [] OTHER -> (IF x.n < 0 THEN "-" ELSE "") \o ToString(abs(x.n) \div x.d) \o "."
                  \o fraction_digits(abs(x.n) % x.d, x.d, 16)

\* Result<TokenLiteral, InterpreterError>; a Rust panic is a fourth outcome
Ok(v) == [kind |-> "Ok", v |-> v]
\* InterpreterError::OperatorError { line, err_msg }
OperatorErrorAt(at, msg) == [kind |-> "OperatorError", line |-> at, msg |-> msg]
\* a token whose line is not given is on line 1: the texts are one line long
\* unless they say otherwise
OperatorError(msg) == OperatorErrorAt(1, msg)
ReturnSignal(v) == [kind |-> "Return", v |-> v]
Panic == [kind |-> "Panic"]

\* ------------------------------------------------------------------------
\* expression.rs / statement.rs: the AST
\* ------------------------------------------------------------------------
Literal(value) == [t |-> "Literal", value |-> value]
Variable(name, id) == [t |-> "Variable", name |-> name, id |-> id]
Assign(name, value, id) == [t |-> "Assign", name |-> name, value |-> value, id |-> id]
Binary(left, op, right) ==
    [t |-> "Binary", left |-> left, operator |-> op, line |-> 1, right |-> right]
\* a Binary whose operator token is on line `at`
BinaryAt(left, op, at, right) == [Binary(left, op, right) EXCEPT !.line = at]
Call(callee, arguments) == [t |-> "Call", callee |-> callee, arguments |-> arguments]
Get(object, name) == [t |-> "Get", object |-> object, name |-> name]
Grouping(e) == [t |-> "Grouping", expression |-> e]
Logical(left, op, right) == [t |-> "Logical", left |-> left, operator |-> op, right |-> right]
Set(object, name, value) == [t |-> "Set", object |-> object, name |-> name, value |-> value]
Super(method, id) == [t |-> "Super", method |-> method, id |-> id]
This(id) == [t |-> "This", id |-> id]
Unary(op, right) == [t |-> "Unary", operator |-> op, right |-> right]

Block(statements) == [t |-> "Block", statements |-> statements]
Class(name, superclass, methods) ==
    [t |-> "Class", name |-> name, superclass |-> superclass, methods |-> methods]
Expression(e) == [t |-> "Expression", expression |-> e]
Function(name, params, body) ==
    [t |-> "Function", name |-> name, params |-> params, body |-> body]
If(c, then_branch, else_branch) ==
    [t |-> "If", expression |-> c, then_branch |-> then_branch, else_branch |-> else_branch]
PrintStmt(e) == [t |-> "Print", expression |-> e]
Return(value) == [t |-> "Return", value |-> value]
Var(name, initializer) == [t |-> "Var", name |-> name, initializer |-> initializer]
While(c, body) == [t |-> "While", expression |-> c, body |-> body]

NoSuperclass == [t |-> "None"]
\* parser.rs if_statement: a missing else branch is an Expression(nil) statement
NoElse == Expression(Literal(LOX_NULL))

\* ------------------------------------------------------------------------
\* environment.rs: frames.  A frame is [values, enclosing]; enclosing = 0 is
\* None.  `envs` is the heap of frames, shared by reference (index).
\* ------------------------------------------------------------------------
NoValues == [n \in {} |-> LOX_NULL]

\* #[derive(Default)]: what RefCell::take leaves behind
DefaultEnvironment == [values |-> NoValues, enclosing |-> 0]

Environment_new(envs, enclosing) ==
    Append(envs, [values |-> NoValues, enclosing |-> enclosing])

define(envs, e, name, value) ==
    [envs EXCEPT ![e].values = (name :> value) @@ @]

RECURSIVE Environment_get(_, _, _)
Environment_get(envs, e, name) ==
    IF name \in DOMAIN envs[e].values
    THEN Ok(envs[e].values[name])
    ELSE IF envs[e].enclosing # 0
         THEN Environment_get(envs, envs[e].enclosing, name)
         ELSE OperatorError("Undefined variable '" \o name \o "'")

\* the loop of ancestor: `left` iterations to go, standing at frame `env`.
\* Each iteration takes the frame out of its cell (leaving the default frame
\* there) and unwraps the enclosing link of what it took.
RECURSIVE ancestor_walk(_, _, _)
ancestor_walk(envs, env, left) ==
    IF left = 0
    THEN [envs |-> envs, env |-> env, panic |-> FALSE]
    ELSE LET taken == envs[env]
             emptied == [envs EXCEPT ![env] = DefaultEnvironment]
         IN  IF taken.enclosing = 0
             THEN [envs |-> emptied, env |-> env, panic |-> TRUE]
             ELSE ancestor_walk(emptied, taken.enclosing, left - 1)

ancestor(envs, e, distance) ==
    IF envs[e].enclosing = 0
    THEN [envs |-> envs, env |-> e, panic |-> TRUE]
    ELSE ancestor_walk(envs, envs[e].enclosing, distance - 1)

get_at(envs, e, distance, name) ==
    IF distance = 0
    THEN [envs |-> envs, r |-> Environment_get(envs, e, name)]
    ELSE LET a == ancestor(envs, e, distance)
         IN  IF a.panic
             THEN [envs |-> a.envs, r |-> Panic]
             ELSE [envs |-> a.envs, r |-> Environment_get(a.envs, a.env, name)]

RECURSIVE Environment_assign(_, _, _, _)
Environment_assign(envs, e, name, value) ==
    IF name \in DOMAIN envs[e].values
    THEN [envs |-> [envs EXCEPT ![e].values[name] = value], r |-> Ok(LOX_NULL)]
    ELSE IF envs[e].enclosing # 0
         THEN Environment_assign(envs, envs[e].enclosing, name, value)
         ELSE [envs |-> envs, r |-> OperatorError("Undefined variable '" \o name \o "'.")]

assign_at(envs, e, distance, name, value) ==
    IF distance = 0
    THEN Environment_assign(envs, e, name, value)
    ELSE LET a == ancestor(envs, e, distance)
         IN  IF a.panic
             THEN [envs |-> a.envs, r |-> Panic]
             ELSE Environment_assign(a.envs, a.env, name, value)

\* ------------------------------------------------------------------------
\* resolver.rs: the static pass.  The resolver state is
\*   [scopes, current_function, current_class, locals, reports]
\* where locals is Interpreter.locals (Resolver holds &mut Interpreter) and
\* reports are the messages handed to lox::token_error.
\* ------------------------------------------------------------------------
NoLocals == [i \in {} |-> 0]

Resolver_new(locals) ==
    [scopes |-> <<>>, current_function |-> "NO_FUNCTION", current_class |-> "NO_CLASS",
     locals |-> locals, reports |-> <<>>]

token_error(rs, message) == [rs EXCEPT !.reports = Append(@, message)]

begin_scope(rs) == [rs EXCEPT !.scopes = Append(@, [n \in {} |-> FALSE])]

end_scope(rs) == [rs EXCEPT !.scopes = SubSeq(@, 1, Len(@) - 1)]

\* declare_var that reports a name declared in any scope, the global one too
declare_var_everywhere(rs, name) ==
    IF rs.scopes = <<>>
    THEN token_error(rs, "Already a variable with this name in this scope.")
    ELSE [(IF \E i \in 1..Len(rs.scopes) : name \in DOMAIN rs.scopes[i]
           THEN token_error(rs, "Already a variable with this name in this scope.")
           ELSE rs) EXCEPT !.scopes[Len(rs.scopes)] = (name :> FALSE) @@ @]

declare_var(rs, name) ==
    IF rs.scopes = <<>>
    THEN rs
    ELSE LET top == Len(rs.scopes)
             r1 == IF name \in DOMAIN rs.scopes[top]
                   THEN token_error(rs, "Already a variable with this name in this scope.")
                   ELSE rs
         IN  [r1 EXCEPT !.scopes[top] = (name :> FALSE) @@ @]

define_var(rs, name) ==
    IF rs.scopes = <<>>
    THEN rs
    ELSE [rs EXCEPT !.scopes[Len(rs.scopes)] = (name :> TRUE) @@ @]

\* Interpreter::resolve
resolve(locals, id, depth) == (id :> depth) @@ locals

resolve_local_var(rs, id, name) ==
    LET hits == {i \in 1..Len(rs.scopes) : name \in DOMAIN rs.scopes[i]}
    IN  IF hits = {}
        THEN rs
        ELSE LET i == CHOOSE i \in hits : \A j \in hits : j <= i
             IN  [rs EXCEPT !.locals = resolve(@, id, Len(rs.scopes) - i)]

RECURSIVE resolve_stmt(_, _)
RECURSIVE resolve_expr(_, _)
RECURSIVE resolve_statements(_, _, _)
RECURSIVE resolve_arguments(_, _, _)
RECURSIVE resolve_methods(_, _, _)

declare_params(rs, params) ==
    LET RECURSIVE go(_, _)
        go(r, i) == IF i > Len(params) THEN r
                    ELSE go(define_var(declare_var(r, params[i]), params[i]), i + 1)
    IN  go(rs, 1)

\* resolve_function that leaves current_function as the body's
resolve_function_unrestored(rs, function, function_type) ==
    end_scope(resolve_statements(declare_params(begin_scope(
        [rs EXCEPT !.current_function = function_type]), function.params), function.body, 1))

resolve_function(rs, function, function_type) ==
    LET enclosing_function_type == rs.current_function
        r1 == begin_scope([rs EXCEPT !.current_function = function_type])
        r2 == declare_params(r1, function.params)
        r3 == resolve_statements(r2, function.body, 1)
        r4 == end_scope(r3)
    IN  [r4 EXCEPT !.current_function = enclosing_function_type]

resolve_function_stmt(rs, stmt, function_type) ==
    resolve_function(define_var(declare_var(rs, stmt.name), stmt.name), stmt, function_type)

resolve_block_stmt(rs, stmt) ==
    end_scope(resolve_statements(begin_scope(rs), stmt.statements, 1))

\* resolver.rs resolve_class_stmt: a class without a superclass
resolve_class_stmt(rs, stmt) ==
    LET enclosing_class == rs.current_class
        r1 == define_var(declare_var([rs EXCEPT !.current_class = "CLASS"], stmt.name),
                         stmt.name)
        r2 == begin_scope(r1)
        r3 == [r2 EXCEPT !.scopes[Len(r2.scopes)] = ("this" :> TRUE) @@ @]
        r4 == resolve_methods(r3, stmt.methods, 1)
        r5 == end_scope(r4)
    IN  [r5 EXCEPT !.current_class = enclosing_class]

\* A class with a superclass (spec 4.2): the superclass expression is
\* resolved, a scope defining `super` is pushed outside the `this` scope.
resolve_subclass_stmt(rs, stmt) ==
    LET enclosing_class == rs.current_class
        r1 == define_var(declare_var([rs EXCEPT !.current_class = "CLASS"], stmt.name),
                         stmt.name)
        r1a == IF stmt.superclass.name = stmt.name
               THEN token_error(r1, "A class can't inherit from itself.")
               ELSE r1
        r1b == resolve_expr(r1a, stmt.superclass)
        r1c == begin_scope([r1b EXCEPT !.current_class = "SUBCLASS"])
        r1d == [r1c EXCEPT !.scopes[Len(r1c.scopes)] = ("super" :> TRUE) @@ @]
        r2 == begin_scope(r1d)
        r3 == [r2 EXCEPT !.scopes[Len(r2.scopes)] = ("this" :> TRUE) @@ @]
        r4 == resolve_methods(r3, stmt.methods, 1)
        r5 == end_scope(end_scope(r4))
    IN  [r5 EXCEPT !.current_class = enclosing_class]

resolve_methods(rs, methods, i) ==
    IF i > Len(methods)
    THEN rs
    ELSE LET declaration == IF methods[i].name = "init" THEN "INITIALIZER" ELSE "METHOD"
         IN  resolve_methods(resolve_function_stmt(rs, methods[i], declaration), methods, i + 1)

resolve_var_stmt(rs, stmt) ==
    define_var(resolve_expr(declare_var(rs, stmt.name), stmt.initializer), stmt.name)

resolve_return_stmt(rs, stmt) ==
    LET r1 == IF rs.current_function = "NO_FUNCTION"
              THEN token_error(rs, "Can't return from top-level code.")
              ELSE rs
        r2 == IF stmt.value = Literal(LOX_NULL)
              THEN r1
              ELSE IF r1.current_function = "INITIALIZER"
                   THEN token_error(r1, "Can't return a value from an initializer")
                   ELSE r1
    IN  resolve_expr(r2, stmt.value)

resolve_if_stmt(rs, stmt) ==
    resolve_stmt(resolve_stmt(resolve_expr(rs, stmt.expression), stmt.then_branch),
                 stmt.else_branch)

resolve_while_stmt(rs, stmt) ==
    resolve_stmt(resolve_expr(rs, stmt.expression), stmt.body)

\* (both branches are the same: the test only makes TLC finish resolving one
\* statement before it starts on the next)
resolve_statements(rs, statements, i) ==
    IF i > Len(statements)
    THEN rs
    ELSE LET resolved == resolve_stmt(rs, statements[i])
         IN  IF resolved.reports = <<>>
             THEN resolve_statements(resolved, statements, i + 1)
             ELSE resolve_statements(resolved, statements, i + 1)

resolve_stmt(rs, stmt) ==
    CASE stmt.t = "Block" -> resolve_block_stmt(rs, stmt)
      [] stmt.t = "Class" -> IF stmt.superclass = NoSuperclass
                             THEN resolve_class_stmt(rs, stmt)
                             ELSE resolve_subclass_stmt(rs, stmt)
      [] stmt.t = "Expression" -> resolve_expr(rs, stmt.expression)
      [] stmt.t = "Function" -> resolve_function_stmt(rs, stmt, "FUNCTION")
      [] stmt.t = "If" -> resolve_if_stmt(rs, stmt)
      [] stmt.t = "Print" -> resolve_expr(rs, stmt.expression)
      [] stmt.t = "Return" -> resolve_return_stmt(rs, stmt)
      [] stmt.t = "Var" -> resolve_var_stmt(rs, stmt)
      [] stmt.t = "While" -> resolve_while_stmt(rs, stmt)

resolve_var_expr(rs, expr) ==
    LET top == Len(rs.scopes)
        r1 == IF /\ rs.scopes # <<>>
                 /\ expr.name \in DOMAIN rs.scopes[top]
                 /\ ~rs.scopes[top][expr.name]
              THEN token_error(rs, "Can't read local variable in its own initializer.")
              ELSE rs
    IN  resolve_local_var(r1, expr.id, expr.name)

resolve_assign_expr(rs, expr) ==
    resolve_local_var(resolve_expr(rs, expr.value), expr.id, expr.name)

resolve_this_expr(rs, expr) ==
    IF rs.current_class = "NO_CLASS"
    THEN token_error(rs, "Can't use 'this' outside of a class.")
    ELSE resolve_local_var(rs, expr.id, "this")

\* `super` (spec 4.2): reported unless inside a class with a superclass
resolve_super_expr(rs, expr) ==
    IF rs.current_class # "SUBCLASS"
    THEN token_error(rs, "Can't use 'super' here.")
    ELSE resolve_local_var(rs, expr.id, "super")

resolve_arguments(rs, arguments, i) ==
    IF i > Len(arguments)
    THEN rs
    ELSE resolve_arguments(resolve_expr(rs, arguments[i]), arguments, i + 1)

resolve_expr(rs, expr) ==
    CASE expr.t = "Assign" -> resolve_assign_expr(rs, expr)
      [] expr.t = "Binary" -> resolve_expr(resolve_expr(rs, expr.left), expr.right)
      [] expr.t = "Call" -> resolve_arguments(resolve_expr(rs, expr.callee), expr.arguments, 1)
      [] expr.t = "Get" -> resolve_expr(rs, expr.object)
      [] expr.t = "Grouping" -> resolve_expr(rs, expr.expression)
      [] expr.t = "Literal" -> rs
      [] expr.t = "Logical" -> resolve_expr(resolve_expr(rs, expr.left), expr.right)
      [] expr.t = "Set" -> resolve_expr(resolve_expr(rs, expr.object), expr.value)
      [] expr.t = "Super" -> resolve_super_expr(rs, expr)
      [] expr.t = "This" -> resolve_this_expr(rs, expr)
      [] expr.t = "Unary" -> resolve_expr(rs, expr.right)
      [] expr.t = "Variable" -> resolve_var_expr(rs, expr)

\* ------------------------------------------------------------------------
\* interpreter.rs, function.rs, class.rs, class_instance.rs, callable.rs.
\* The interpreter state s is
\*   [envs, curr_env, locals, functions, classes, instances, callables,
\*    stdout, now, depth, log]
\* functions[f] = [declaration, closure, is_initializer]     (LoxFunction)
\* classes[c]   = [name, superclass, methods]                (LoxClass)
\* instances[i] = [class, fields]                            (LoxInstance)
\* callables[c] = [kind, ref]                                (Rc<LoxCallable>)
\* depth is the number of LoxFunction::call activations on the Rust stack
\* and log the history of what the visitors did; neither is read by the
\* interpreter.
\* ------------------------------------------------------------------------
GlobalEnv == 1

R(s, r) == [s |-> s, r |-> r]

\* Rust's `?` on the result x of a visitor: Ok goes on with K, an error, a
\* return signal or a panic leaves the function with it
Try(x, K(_)) == IF x.r.kind # "Ok" THEN x ELSE K(x)

\* `let x = ...;` and the code K that follows it
Let(x, K(_)) == K(x)

Observe(s, event) == [s EXCEPT !.log = Append(@, event)]

\* the same for what execute_block, get_at and assign_at did
ObserveFrame(s, event) == [s EXCEPT !.frames = Append(@, event)]

\* The program-visible part of the interpreter state
Visible(s) == [envs |-> s.envs, curr_env |-> s.curr_env, functions |-> s.functions,
               classes |-> s.classes, instances |-> s.instances,
               callables |-> s.callables, stdout |-> s.stdout]

NoMethods == [n \in {} |-> 0]

\* a truthiness in which 0 and "" are false too
is_truthy_of_content(literal) ==
    CASE literal.k = "bool" -> literal.b
      [] literal.k = "nil" -> FALSE
      [] literal.k = "num" -> ~f64_eq(literal, LOX_NUMBER(0))
      [] literal.k = "str" -> literal.s # ""
      [] OTHER -> TRUE

is_truthy(literal) ==
    CASE literal.k = "bool" -> literal.b
      [] literal.k = "nil" -> FALSE
      [] OTHER -> TRUE

is_equal(left, right) ==
    CASE left.k = "num" /\ right.k = "num" -> f64_eq(left, right)
      [] left.k = "str" /\ right.k = "str" -> left.s = right.s
      [] left.k = "bool" /\ right.k = "bool" -> left.b = right.b
      [] left.k = "nil" /\ right.k = "nil" -> TRUE
      [] OTHER -> FALSE

\* impl Display for TokenLiteral / LoxCallable / LoxFunction / LoxClass / LoxInstance
Display(s, value) ==
    CASE value.k = "str" -> value.s
      [] value.k = "num" -> f64_display(value)
      [] value.k = "bool" -> IF value.b THEN "true" ELSE "false"
      [] value.k = "nil" -> "nil"
      [] value.k = "instance" -> s.classes[s.instances[value.i].class].name \o " instance"
      [] value.k = "callable" ->
            LET c == s.callables[value.c]
            IN  CASE c.kind = "Native" -> "<native fn>"
                  [] c.kind = "UserFunction" ->
                        "<fn " \o s.functions[c.ref].declaration.name \o ">"
                  [] c.kind = "ClassConstructor" -> s.classes[c.ref].name

RECURSIVE find_method(_, _, _)
find_method(classes, c, key) ==
    IF key \in DOMAIN classes[c].methods
    THEN classes[c].methods[key]
    ELSE IF classes[c].superclass # 0
         THEN find_method(classes, classes[c].superclass, key)
         ELSE 0

LoxFunction_arity(s, f) == Len(s.functions[f].declaration.params)

LoxClass_arity(s, c) ==
    LET initializer == find_method(s.classes, c, "init")
    IN  IF initializer # 0 THEN LoxFunction_arity(s, initializer) ELSE 0

\* clock.rs: Clock::arity
NativeFunction_arity == 0

LoxCallable_arity(s, c) ==
    CASE s.callables[c].kind = "Native" -> NativeFunction_arity
      [] s.callables[c].kind = "UserFunction" -> LoxFunction_arity(s, s.callables[c].ref)
      [] s.callables[c].kind = "ClassConstructor" -> LoxClass_arity(s, s.callables[c].ref)

\* LoxFunction::bind: the new function is functions[Len(functions)] of the result
bind(s, f, instance) ==
    LET e1 == Environment_new(s.envs, s.functions[f].closure)
        environment == Len(e1)
    IN  [s EXCEPT !.envs = define(e1, environment, "this", LOX_INSTANCE(instance)),
                  !.functions = Append(@, [declaration |-> s.functions[f].declaration,
                                           closure |-> environment,
                                           is_initializer |-> s.functions[f].is_initializer])]

\* LoxInstance::get with the method table consulted before the fields
LoxInstance_get_method_first(s, i, name) ==
    IF find_method(s.classes, s.instances[i].class, name) # 0
    THEN Let(bind(s, find_method(s.classes, s.instances[i].class, name), i), LAMBDA s1:
             R([s1 EXCEPT !.callables = Append(@, [kind |-> "UserFunction",
                                                   ref |-> Len(s1.functions)])],
               Ok(LOX_CALLABLE(Len(s1.callables) + 1))))
    ELSE IF name \in DOMAIN s.instances[i].fields
         THEN R(s, Ok(s.instances[i].fields[name]))
         ELSE R(s, OperatorError("Undefined property '" \o name \o "'"))

LoxInstance_get(s, i, name) ==
    IF name \in DOMAIN s.instances[i].fields
    THEN R(s, Ok(s.instances[i].fields[name]))
    ELSE LET method == find_method(s.classes, s.instances[i].class, name)
         IN  IF method # 0
             THEN LET s1 == bind(s, method, i)
                      s2 == [s1 EXCEPT !.callables =
                                Append(@, [kind |-> "UserFunction", ref |-> Len(s1.functions)])]
                  IN  R(s2, Ok(LOX_CALLABLE(Len(s2.callables))))
             ELSE R(s, OperatorError("Undefined property '" \o name \o "'"))

LoxInstance_set(s, i, name, value) ==
    [s EXCEPT !.instances[i].fields = (name :> value) @@ @]

NativeFunction_call(s, arguments) == R(s, Ok(LOX_NUMBER(s.now)))

RECURSIVE accept_expr(_, _)
RECURSIVE accept_statement(_, _)
RECURSIVE execute_statements(_, _, _, _)
RECURSIVE evaluate_arguments(_, _, _, _)
RECURSIVE visit_while_stmt(_, _)

\* the for loop of execute_block written with `?`: an error or a return
\* signal leaves the loop without restoring curr_env
RECURSIVE execute_statements_unrestored(_, _, _, _)
execute_statements_unrestored(s, statements, i, previous) ==
    IF i > Len(statements)
    THEN R([s EXCEPT !.curr_env = previous], Ok(LOX_NULL))
    ELSE Let(accept_statement(s, statements[i]), LAMBDA x:
             CASE x.r.kind = "Panic" -> x
               [] x.r.kind = "Ok" /\ x.r.v = LOX_NULL ->
                     execute_statements_unrestored(x.s, statements, i + 1, previous)
               [] x.r.kind = "Ok" /\ x.r.v # LOX_NULL -> R(x.s, ReturnSignal(x.r.v))
               [] OTHER -> x)

\* the body of the for loop of execute_block, from statement i on
execute_statements(s, statements, i, previous) ==
    IF i > Len(statements)
    THEN R([s EXCEPT !.curr_env = previous], Ok(LOX_NULL))
    ELSE Let(accept_statement(s, statements[i]), LAMBDA x:
             CASE x.r.kind = "Panic" -> x
               [] x.r.kind = "Ok" /\ x.r.v = LOX_NULL ->
                     execute_statements(x.s, statements, i + 1, previous)
               [] x.r.kind = "Ok" /\ x.r.v # LOX_NULL ->
                     R([x.s EXCEPT !.curr_env = previous], ReturnSignal(x.r.v))
               [] OTHER -> R([x.s EXCEPT !.curr_env = previous], x.r))

\* the log gets, when execute_block returns, the frame that was current on
\* entry, the frame of the block and the frame that is current on exit
execute_block(s, statements, environment) ==
    Let(execute_statements([s EXCEPT !.curr_env = environment], statements, 1, s.curr_env),
        LAMBDA x:
        IF x.r.kind = "Panic"
        THEN x
        ELSE R(ObserveFrame(x.s, [e |-> "execute_block", previous |-> s.curr_env,
                                  environment |-> environment, curr_env |-> x.s.curr_env,
                                  depth |-> s.depth, r |-> x.r]),
               x.r))

visit_block_stmt(s, stmt) ==
    Try(execute_block([s EXCEPT !.envs = Environment_new(@, s.curr_env)],
                      stmt.statements, Len(s.envs) + 1),
        LAMBDA x: R(x.s, Ok(LOX_NULL)))

\* zip(params, arguments): as many bindings as the shorter of the two
bind_parameters(envs, environment, params, arguments) ==
    LET n == IF Len(params) < Len(arguments) THEN Len(params) ELSE Len(arguments)
        RECURSIVE go(_, _)
        go(e, i) == IF i > n THEN e
                    ELSE go(define(e, environment, params[i], arguments[i]), i + 1)
    IN  go(envs, 1)

\* LoxFunction::call, up to the call of execute_block: the environments with
\* the frame of the call, the last one, added and the parameters bound in it
call_environment(s, f, arguments) ==
    bind_parameters(Environment_new(s.envs, s.functions[f].closure), Len(s.envs) + 1,
                    s.functions[f].declaration.params, arguments)

\* LoxFunction::call without `if let Err(InterpreterError::Return(literal))`:
\* the block's result is handed on as it is
call_result_uncaught(fn, b) ==
    IF b.r.kind = "Panic"
    THEN b
    ELSE IF fn.is_initializer
         THEN Let(get_at(b.s.envs, fn.closure, 0, "this"),
                  LAMBDA g: R([b.s EXCEPT !.envs = g.envs], g.r))
         ELSE b

\* LoxFunction::call with the initializer test after the test for a return
\* signal
call_result_signal_first(fn, b) ==
    IF b.r.kind = "Panic"
    THEN b
    ELSE IF b.r.kind = "Return"
         THEN R(b.s, Ok(b.r.v))
         ELSE IF fn.is_initializer
              THEN Let(get_at(b.s.envs, fn.closure, 0, "this"),
                       LAMBDA g: R([b.s EXCEPT !.envs = g.envs], g.r))
              ELSE b

\* LoxFunction::call, after execute_block returned b
call_result(fn, b) ==
    IF b.r.kind = "Panic"
    THEN b
    ELSE IF fn.is_initializer
         THEN Let(get_at(b.s.envs, fn.closure, 0, "this"),
                  LAMBDA g: R([b.s EXCEPT !.envs = g.envs], g.r))
         ELSE IF b.r.kind = "Return"
              THEN R(b.s, Ok(b.r.v))
              ELSE b

\* LoxFunction::call
LoxFunction_call(s, f, arguments) ==
    Let(call_environment(s, f, arguments), LAMBDA envs:
    Let(execute_block(Observe([s EXCEPT !.envs = envs, !.depth = @ + 1],
                              [e |-> "enter", f |-> f, depth |-> s.depth + 1,
                               frame |-> envs[Len(envs)],
                               closure |-> envs[s.functions[f].closure]]),
                      s.functions[f].declaration.body, Len(envs)),
        LAMBDA b:
    Let(call_result(s.functions[f], [b EXCEPT !.s.depth = @ - 1]), LAMBDA out:
        R(Observe(out.s, [e |-> "exit", f |-> f, depth |-> s.depth + 1,
                          is_initializer |-> s.functions[f].is_initializer,
                          body |-> b.r, ret |-> out.r,
                          closure |-> out.s.envs[s.functions[f].closure]]),
          out.r))))

\* LoxClass::call; the last argument is the class callable itself
LoxClass_call(s, c, arguments) ==
    IF ~(/\ Len(arguments) > 0
         /\ arguments[Len(arguments)].k = "callable"
         /\ s.callables[arguments[Len(arguments)].c].kind = "ClassConstructor")
    THEN R(s, Panic)
    ELSE Let([s EXCEPT !.instances =
                 Append(@, [class |-> s.callables[arguments[Len(arguments)].c].ref,
                            fields |-> NoValues])],
             LAMBDA s1:
         Let(find_method(s1.classes, c, "init"), LAMBDA initializer:
         Let(IF initializer = 0
             THEN R(s1, Ok(LOX_NULL))
             ELSE LoxFunction_call(bind(s1, initializer, Len(s1.instances)),
                                   Len(s1.functions) + 1, arguments),
             LAMBDA x:
         Let(IF x.r.kind # "Ok" THEN x.r ELSE Ok(LOX_INSTANCE(Len(s1.instances))),
             LAMBDA r:
             R(Observe(x.s, [e |-> "construct", class |-> c,
                             instance |-> Len(s1.instances),
                             initializer |-> initializer,
                             bound |-> IF initializer = 0 THEN 0 ELSE Len(s1.functions) + 1,
                             arguments |-> SubSeq(arguments, 1, Len(arguments) - 1),
                             instances |-> Len(s.instances),
                             r |-> r]),
               r)))))

LoxCallable_call(s, c, arguments) ==
    CASE s.callables[c].kind = "Native" -> NativeFunction_call(s, arguments)
      [] s.callables[c].kind = "UserFunction" -> LoxFunction_call(s, s.callables[c].ref, arguments)
      [] s.callables[c].kind = "ClassConstructor" -> LoxClass_call(s, s.callables[c].ref, arguments)

\* ---- statements --------------------------------------------------------

\* the loop over the methods of visit_class_stmt: the method table so far
RECURSIVE class_methods_from(_, _, _, _)
class_methods_from(s, methods, i, class_methods) ==
    IF i > Len(methods)
    THEN [s |-> s, r |-> Ok(LOX_NULL), class_methods |-> class_methods]
    ELSE IF methods[i].t # "Function"
         THEN [s |-> s, r |-> OperatorError("Non-method objects found in class body"),
               class_methods |-> class_methods]
         ELSE class_methods_from(
                  [s EXCEPT !.functions = Append(@, [declaration |-> methods[i],
                                                     closure |-> s.curr_env,
                                                     is_initializer |-> methods[i].name = "init"])],
                  methods, i + 1,
                  (methods[i].name :> Len(s.functions) + 1) @@ class_methods)

\* visit_class_stmt, the superclass: its class, 0 for None
evaluate_superclass(s, stmt) ==
    IF stmt.superclass = NoSuperclass
    THEN R(s, Ok(0))
    ELSE Let(accept_expr(s, stmt.superclass), LAMBDA x:
             IF x.r.kind = "Panic"
             THEN x
             ELSE IF /\ x.r.kind = "Ok"
                     /\ x.r.v.k = "callable"
                     /\ x.s.callables[x.r.v.c].kind = "ClassConstructor"
                  THEN R(x.s, Ok(x.s.callables[x.r.v.c].ref))
                  ELSE R(x.s, OperatorError("Superclass must be a class")))

\* visit_class_stmt, `if let Some(class) = superclass_value`: the frame that
\* holds "super", bound to a new instance of the superclass
super_environment(s, superclass) ==
    IF superclass = 0
    THEN s
    ELSE [s EXCEPT !.envs = define(Environment_new(@, s.curr_env), Len(s.envs) + 1, "super",
                                   LOX_INSTANCE(Len(s.instances) + 1)),
                   !.curr_env = Len(s.envs) + 1,
                   !.instances = Append(@, [class |-> superclass, fields |-> NoValues])]

\* visit_class_stmt, from the construction of the LoxClass on
assign_class(s, stmt, superclass, class_methods) ==
    Let(Environment_assign(s.envs, s.curr_env, stmt.name,
                           LOX_CALLABLE(Len(s.callables) + 1)),
        LAMBDA a:
            R([s EXCEPT !.classes = Append(@, [name |-> stmt.name,
                                               superclass |-> superclass,
                                               methods |-> class_methods]),
                        !.callables = Append(@, [kind |-> "ClassConstructor",
                                                 ref |-> Len(s.classes) + 1]),
                        !.envs = a.envs],
              a.r))

\* visit_class_stmt without the step back from the frame of "super"
visit_class_stmt_unrestored(s, stmt) ==
    Let(
    Try(evaluate_superclass(s, stmt), LAMBDA sup:
    Let(class_methods_from(
            super_environment([sup.s EXCEPT !.envs = define(@, sup.s.curr_env, stmt.name, LOX_NULL)],
                              sup.r.v),
            stmt.methods, 1, NoMethods),
        LAMBDA m:
            IF m.r.kind # "Ok"
            THEN R(m.s, m.r)
            ELSE assign_class(m.s, stmt, sup.r.v, m.class_methods))),
        LAMBDA x:
            IF x.r.kind = "Panic"
            THEN x
            ELSE R(ObserveFrame(x.s, [e |-> "visit_class_stmt", previous |-> s.curr_env,
                                      curr_env |-> x.s.curr_env, r |-> x.r,
                                      class |-> Len(x.s.classes), envs |-> x.s.envs]),
                   x.r))

\* the log of frames gets, when the statement returns, the frame that was
\* current on entry, the frame that is current on exit and the class made
visit_class_stmt(s, stmt) ==
    Let(
    Try(evaluate_superclass(s, stmt), LAMBDA sup:
    Let(class_methods_from(
            super_environment([sup.s EXCEPT !.envs = define(@, sup.s.curr_env, stmt.name, LOX_NULL)],
                              sup.r.v),
            stmt.methods, 1, NoMethods),
        LAMBDA m:
            IF m.r.kind # "Ok"
            THEN R(m.s, m.r)
            ELSE IF sup.r.v = 0
                 THEN assign_class(m.s, stmt, sup.r.v, m.class_methods)
                 ELSE IF m.s.envs[m.s.curr_env].enclosing = 0
                      THEN R(m.s, Panic)
                      ELSE assign_class([m.s EXCEPT !.curr_env = m.s.envs[m.s.curr_env].enclosing],
                                        stmt, sup.r.v, m.class_methods))),
        LAMBDA x:
            IF x.r.kind = "Panic"
            THEN x
            ELSE R(ObserveFrame(x.s, [e |-> "visit_class_stmt", previous |-> s.curr_env,
                                      curr_env |-> x.s.curr_env, r |-> x.r,
                                      class |-> Len(x.s.classes), envs |-> x.s.envs]),
                   x.r))

visit_expression_stmt(s, stmt) ==
    Try(accept_expr(s, stmt.expression), LAMBDA x: R(x.s, Ok(LOX_NULL)))

visit_print_stmt(s, stmt) ==
    Try(accept_expr(s, stmt.expression), LAMBDA x:
        R([x.s EXCEPT !.stdout = Append(@, Display(x.s, x.r.v))], Ok(LOX_NULL)))

visit_var_stmt(s, stmt) ==
    Try(accept_expr(s, stmt.initializer), LAMBDA x:
        R([x.s EXCEPT !.envs = define(@, x.s.curr_env, stmt.name, x.r.v)], Ok(LOX_NULL)))

visit_if_stmt(s, stmt) ==
    Try(accept_expr(s, stmt.expression), LAMBDA x:
        IF is_truthy(x.r.v)
        THEN accept_statement(x.s, stmt.then_branch)
        ELSE accept_statement(x.s, stmt.else_branch))

visit_while_stmt(s, stmt) ==
    Try(accept_expr(s, stmt.expression), LAMBDA x:
        IF ~is_truthy(x.r.v)
        THEN R(x.s, Ok(LOX_NULL))
        ELSE Try(accept_statement(x.s, stmt.body), LAMBDA b: visit_while_stmt(b.s, stmt)))

visit_function_stmt(s, stmt) ==
    R([s EXCEPT !.functions = Append(@, [declaration |-> stmt,
                                         closure |-> s.curr_env,
                                         is_initializer |-> FALSE]),
                !.callables = Append(@, [kind |-> "UserFunction",
                                         ref |-> Len(s.functions) + 1]),
                !.envs = define(@, s.curr_env, stmt.name,
                                LOX_CALLABLE(Len(s.callables) + 1))],
      Ok(LOX_NULL))

visit_return_stmt(s, stmt) ==
    Try(accept_expr(s, stmt.value), LAMBDA x:
        R(Observe(x.s, [e |-> "return", depth |-> x.s.depth, value |-> x.r.v]),
          ReturnSignal(x.r.v)))

accept_statement(s, stmt) ==
    CASE stmt.t = "Block" -> visit_block_stmt(s, stmt)
      [] stmt.t = "Class" -> visit_class_stmt(s, stmt)
      [] stmt.t = "Expression" -> visit_expression_stmt(s, stmt)
      [] stmt.t = "Function" -> visit_function_stmt(s, stmt)
      [] stmt.t = "Print" -> visit_print_stmt(s, stmt)
      [] stmt.t = "Return" -> visit_return_stmt(s, stmt)
      [] stmt.t = "Var" -> visit_var_stmt(s, stmt)
      [] stmt.t = "If" -> visit_if_stmt(s, stmt)
      [] stmt.t = "While" -> visit_while_stmt(s, stmt)

\* ---- expressions -------------------------------------------------------

visit_literal_expr(s, expr) == R(s, Ok(expr.value))

\* and/or that evaluate both operands and give a boolean
visit_logical_expr_eager(s, expr) ==
    Try(accept_expr(s, expr.left), LAMBDA left:
        Try(accept_expr(left.s, expr.right), LAMBDA right:
            R(right.s, Ok(LOX_BOOL(IF expr.operator = "OR"
                                   THEN is_truthy(left.r.v) \/ is_truthy(right.r.v)
                                   ELSE is_truthy(left.r.v) /\ is_truthy(right.r.v))))))

visit_logical_expr(s, expr) ==
    Try(accept_expr(s, expr.left), LAMBDA left:
        IF \/ (is_truthy(left.r.v) /\ expr.operator = "OR")
           \/ (~is_truthy(left.r.v) /\ expr.operator = "AND")
        THEN left
        ELSE accept_expr(left.s, expr.right))

visit_grouping_expr(s, expr) == accept_expr(s, expr.expression)

\* the match on (left, right) of visit_binary_expr
\* a match on (left, right) that lets every pair of operands through
binary_operation_unchecked(left, operator, right) ==
    IF left.k = "num" /\ right.k = "num" THEN Ok(f64_add(left, right)) ELSE Ok(left)

\* the match on (left, right) of visit_binary_expr; operator is the Token
binary_operation(left, operator, right) ==
    CASE left.k = "num" /\ right.k = "num" ->
            CASE operator.token_type = "PLUS" -> Ok(f64_add(left, right))
              [] operator.token_type = "MINUS" -> Ok(f64_sub(left, right))
              [] operator.token_type = "STAR" -> Ok(f64_mul(left, right))
              [] operator.token_type = "SLASH" -> Ok(f64_div(left, right))
              [] operator.token_type = "EQUAL_EQUAL" -> Ok(LOX_BOOL(is_equal(left, right)))
              [] operator.token_type = "BANG_EQUAL" -> Ok(LOX_BOOL(~is_equal(left, right)))
              [] operator.token_type = "GREATER" -> Ok(LOX_BOOL(f64_lt(right, left)))
              [] operator.token_type = "GREATER_EQUAL" -> Ok(LOX_BOOL(f64_le(right, left)))
              [] operator.token_type = "LESS" -> Ok(LOX_BOOL(f64_lt(left, right)))
              [] operator.token_type = "LESS_EQUAL" -> Ok(LOX_BOOL(f64_le(left, right)))
              [] OTHER ->
                    OperatorErrorAt(operator.line, "Unrecognized operator passed between two numbers")
      [] left.k = "str" /\ right.k = "str" ->
            CASE operator.token_type = "PLUS" -> Ok(LOX_STRING(left.s \o right.s))
              [] operator.token_type = "EQUAL_EQUAL" -> Ok(LOX_BOOL(is_equal(left, right)))
              [] operator.token_type = "BANG_EQUAL" -> Ok(LOX_BOOL(~is_equal(left, right)))
              [] OTHER ->
                    OperatorErrorAt(operator.line, "Non-concatenating operator passed between two strings")
      [] left.k = "bool" /\ right.k = "bool" ->
            CASE operator.token_type = "EQUAL_EQUAL" -> Ok(LOX_BOOL(is_equal(left, right)))
              [] operator.token_type = "BANG_EQUAL" -> Ok(LOX_BOOL(~is_equal(left, right)))
              [] OTHER ->
                    OperatorErrorAt(operator.line, "Non-equality operators passed between two bools")
      [] left.k = "nil" /\ right.k = "nil" ->
            CASE operator.token_type = "EQUAL_EQUAL" -> Ok(LOX_BOOL(is_equal(left, right)))
              [] operator.token_type = "BANG_EQUAL" -> Ok(LOX_BOOL(~is_equal(left, right)))
              [] OTHER ->
                    OperatorErrorAt(operator.line, "Non-equality operators passed between two nils")
      [] left.k = "callable" /\ right.k = "callable" ->
            CASE operator.token_type = "EQUAL_EQUAL" -> Ok(LOX_BOOL(left.c = right.c))
              [] operator.token_type = "BANG_EQUAL" -> Ok(LOX_BOOL(left.c # right.c))
              [] OTHER ->
                    OperatorErrorAt(operator.line, "Non-equality operators passed between two function pointers")
      [] left.k = "instance" /\ right.k = "instance" ->
            CASE operator.token_type = "EQUAL_EQUAL" -> Ok(LOX_BOOL(left.i = right.i))
              [] operator.token_type = "BANG_EQUAL" -> Ok(LOX_BOOL(left.i # right.i))
              [] OTHER ->
                    OperatorErrorAt(operator.line, "Non-equality operators passed between two class instances")
      [] OTHER ->
            CASE operator.token_type = "EQUAL_EQUAL" -> Ok(LOX_BOOL(FALSE))
              [] operator.token_type = "BANG_EQUAL" -> Ok(LOX_BOOL(TRUE))
              [] OTHER ->
                    OperatorErrorAt(operator.line, "Mismatched types operated on")

visit_binary_expr(s, expr) ==
    Try(accept_expr(s, expr.left), LAMBDA left:
    Try(accept_expr(left.s, expr.right), LAMBDA right:
        R(right.s, binary_operation(left.r.v,
                                    [token_type |-> expr.operator, line |-> expr.line],
                                    right.r.v))))

\* the loop over the arguments of visit_call_expr: `parameters` so far
evaluate_arguments(s, arguments, i, parameters) ==
    IF i > Len(arguments)
    THEN [s |-> s, r |-> Ok(LOX_NULL), parameters |-> parameters]
    ELSE Let(accept_expr(s, arguments[i]), LAMBDA x:
             IF x.r.kind # "Ok"
             THEN [s |-> x.s, r |-> x.r, parameters |-> parameters]
             ELSE evaluate_arguments(x.s, arguments, i + 1, Append(parameters, x.r.v)))

\* visit_call_expr without the comparison of the arity with parameters.len()
call_value_unchecked(s, callee, parameters, arity) ==
    IF callee.k = "callable"
    THEN LoxCallable_call(s, callee.c,
                          IF s.callables[callee.c].kind = "ClassConstructor"
                          THEN Append(parameters, callee)
                          ELSE parameters)
    ELSE R(s, OperatorError("Can only call functions and class instances"))

\* visit_call_expr, once the callee and the arguments are evaluated
call_value(s, callee, parameters, arity) ==
    IF callee.k = "callable"
    THEN IF arity = Len(parameters)
         THEN LoxCallable_call(s, callee.c,
                               IF s.callables[callee.c].kind = "ClassConstructor"
                               THEN Append(parameters, callee)
                               ELSE parameters)
         ELSE R(s, OperatorError("Expected " \o ToString(arity) \o " arguments but got "
                                 \o ToString(Len(parameters)) \o "."))
    ELSE R(s, OperatorError("Can only call functions and class instances"))

visit_call_expr(s, expr) ==
    Try(accept_expr(s, expr.callee), LAMBDA c:
    Let(evaluate_arguments(c.s, expr.arguments, 1, <<>>), LAMBDA a:
        IF a.r.kind # "Ok"
        THEN R(a.s, a.r)
        ELSE Let(IF c.r.v.k = "callable" THEN LoxCallable_arity(a.s, c.r.v.c) ELSE -1,
                 LAMBDA arity:
             Let(call_value(a.s, c.r.v, a.parameters, arity), LAMBDA x:
                 R(Observe(x.s, [e |-> "call_expr", callee |-> c.r.v,
                                 arity |-> arity, nargs |-> Len(a.parameters),
                                 r |-> x.r,
                                 untouched |-> Visible(x.s) = Visible(a.s),
                                 entered |-> Len(x.s.log) # Len(a.s.log)]),
                   x.r)))))

visit_unary_expr(s, expr) ==
    Try(accept_expr(s, expr.right), LAMBDA right:
        CASE expr.operator = "MINUS" ->
                IF right.r.v.k = "num"
                THEN R(right.s, Ok(f64_neg(right.r.v)))
                ELSE R(right.s, OperatorError("Minus operator used on non-numerical operand"))
          [] expr.operator = "BANG" -> R(right.s, Ok(LOX_BOOL(~is_truthy(right.r.v))))
          [] OTHER -> R(right.s, Panic))

\* Variable and This expressions; the name of a This expression is "this"
lookup_variable(s, expr) ==
    IF expr.id \in DOMAIN s.locals
    THEN Let(get_at(s.envs, s.curr_env, s.locals[expr.id],
                    IF expr.t = "This" THEN "this" ELSE expr.name),
             LAMBDA g: R(ObserveFrame([s EXCEPT !.envs = g.envs],
                                      [e |-> "get_at", envs |-> s.envs, env |-> s.curr_env,
                                       distance |-> s.locals[expr.id],
                                       name |-> IF expr.t = "This" THEN "this" ELSE expr.name,
                                       r |-> g.r, after |-> g.envs]),
                         g.r))
    ELSE R(s, Environment_get(s.envs, GlobalEnv,
                              IF expr.t = "This" THEN "this" ELSE expr.name))

assign_variable(s, expr) ==
    Try(accept_expr(s, expr.value), LAMBDA x:
    Let(IF expr.id \in DOMAIN x.s.locals
        THEN assign_at(x.s.envs, x.s.curr_env, x.s.locals[expr.id], expr.name, x.r.v)
        ELSE Environment_assign(x.s.envs, GlobalEnv, expr.name, x.r.v),
        LAMBDA a:
    Let(IF expr.id \in DOMAIN x.s.locals
        THEN ObserveFrame([x.s EXCEPT !.envs = a.envs],
                          [e |-> "assign_at", envs |-> x.s.envs, env |-> x.s.curr_env,
                           distance |-> x.s.locals[expr.id], name |-> expr.name,
                           value |-> x.r.v, r |-> a.r, after |-> a.envs])
        ELSE [x.s EXCEPT !.envs = a.envs],
        LAMBDA s1:
            IF a.r.kind # "Ok" THEN R(s1, a.r) ELSE R(s1, Ok(x.r.v)))))

visit_get_expr(s, expr) ==
    Try(accept_expr(s, expr.object), LAMBDA object:
        IF object.r.v.k # "instance"
        THEN R(object.s, OperatorError("Only instances have properties."))
        ELSE Let(LoxInstance_get(object.s, object.r.v.i, expr.name), LAMBDA x:
                 R(Observe(x.s, [e |-> "get", instance |-> object.r.v.i, name |-> expr.name,
                                 before |-> Visible(object.s),
                                 after |-> Visible(x.s), r |-> x.r]),
                   x.r)))

visit_set_expr(s, expr) ==
    Try(accept_expr(s, expr.object), LAMBDA object:
        IF object.r.v.k # "instance"
        THEN R(object.s, OperatorError("Only instances have fields."))
        ELSE Try(accept_expr(object.s, expr.value), LAMBDA value:
                 R(LoxInstance_set(value.s, object.r.v.i, expr.name, value.r.v),
                   Ok(value.r.v))))

\* visit_super_expr, after the two lookups: g1 is "super" and g2 is "this",
\* both read in s
super_method_of(s, g1, g2, distance, method) ==
    CASE g1.r.kind # "Ok" -> R([s EXCEPT !.envs = g1.envs], g1.r)
      [] g1.r.v.k # "instance" \/ distance = 0 -> R([s EXCEPT !.envs = g1.envs], Panic)
      [] g2.r.kind # "Ok" -> R([s EXCEPT !.envs = g2.envs], g2.r)
      [] g2.r.v.k # "instance" -> R([s EXCEPT !.envs = g2.envs], Panic)
      [] find_method(s.classes, s.instances[g1.r.v.i].class, method) = 0 ->
            R([s EXCEPT !.envs = g2.envs],
              OperatorError("Undefined property '" \o method \o "'"))
      [] OTHER ->
            Let(bind([s EXCEPT !.envs = g2.envs],
                     find_method(s.classes, s.instances[g1.r.v.i].class, method),
                     g2.r.v.i),
                LAMBDA s3:
                    R([s3 EXCEPT !.callables = Append(@, [kind |-> "UserFunction",
                                                          ref |-> Len(s3.functions)])],
                      Ok(LOX_CALLABLE(Len(s3.callables) + 1))))

visit_super_expr(s, expr) ==
    IF expr.id \notin DOMAIN s.locals
    THEN R(s, Panic)
    ELSE Let(get_at(s.envs, s.curr_env, s.locals[expr.id], "super"), LAMBDA g1:
         Let(get_at(g1.envs, s.curr_env, s.locals[expr.id] - 1, "this"), LAMBDA g2:
         Let(super_method_of(s, g1, g2, s.locals[expr.id], expr.method), LAMBDA x:
             R(ObserveFrame(Observe(x.s, [e |-> "super", method |-> expr.method,
                                          keyword |-> g1.r, r |-> x.r]),
                            [e |-> "get_at", envs |-> s.envs, env |-> s.curr_env,
                             distance |-> s.locals[expr.id], name |-> "super", r |-> g1.r,
                             after |-> g1.envs]),
               x.r))))

accept_expr(s, expr) ==
    CASE expr.t = "Assign" -> assign_variable(s, expr)
      [] expr.t = "Binary" -> visit_binary_expr(s, expr)
      [] expr.t = "Call" -> visit_call_expr(s, expr)
      [] expr.t = "Get" -> visit_get_expr(s, expr)
      [] expr.t = "Grouping" -> visit_grouping_expr(s, expr)
      [] expr.t = "Literal" -> visit_literal_expr(s, expr)
      [] expr.t = "Logical" -> visit_logical_expr(s, expr)
      [] expr.t = "Set" -> visit_set_expr(s, expr)
      [] expr.t = "Super" -> visit_super_expr(s, expr)
      [] expr.t = "This" -> lookup_variable(s, expr)
      [] expr.t = "Unary" -> visit_unary_expr(s, expr)
      [] expr.t = "Variable" -> lookup_variable(s, expr)

\* ------------------------------------------------------------------------
\* parser.rs: id stamping.  A source text is given by the tree the parser
\* builds for it; the ids are the ones Parser::curr_id hands out, in the
\* order the parser creates the nodes (Parser::new starts at 0).  Each
\* operator takes the tree with unstamped ids and the counter, and returns
\* [node, curr_id].
\* ------------------------------------------------------------------------
RECURSIVE expression(_, _)
RECURSIVE arguments_list(_, _, _, _)
RECURSIVE declaration(_, _)
RECURSIVE declarations(_, _, _, _)

arguments_list(arguments, i, curr_id, done) ==
    IF i > Len(arguments)
    THEN [node |-> done, curr_id |-> curr_id]
    ELSE LET a == expression(arguments[i], curr_id)
         IN  arguments_list(arguments, i + 1, a.curr_id, Append(done, a.node))

expression(expr, curr_id) ==
    CASE expr.t \in {"Variable", "This", "Super"} ->
            \* primary: let id = self.curr_id; self.curr_id += 1
            [node |-> [expr EXCEPT !.id = curr_id], curr_id |-> curr_id + 1]
      [] expr.t = "Assign" ->
            \* assignment: the target was parsed as a Variable (one id), then
            \* the value, then the Assign node takes the next id
            LET value == expression(expr.value, curr_id + 1)
            IN  [node |-> [expr EXCEPT !.value = value.node, !.id = value.curr_id],
                 curr_id |-> value.curr_id + 1]
      [] expr.t \in {"Binary", "Logical"} ->
            LET left == expression(expr.left, curr_id)
                right == expression(expr.right, left.curr_id)
            IN  [node |-> [expr EXCEPT !.left = left.node, !.right = right.node],
                 curr_id |-> right.curr_id]
      [] expr.t = "Call" ->
            LET callee == expression(expr.callee, curr_id)
                args == arguments_list(expr.arguments, 1, callee.curr_id, <<>>)
            IN  [node |-> [expr EXCEPT !.callee = callee.node, !.arguments = args.node],
                 curr_id |-> args.curr_id]
      [] expr.t = "Get" ->
            LET object == expression(expr.object, curr_id)
            IN  [node |-> [expr EXCEPT !.object = object.node], curr_id |-> object.curr_id]
      [] expr.t = "Set" ->
            LET object == expression(expr.object, curr_id)
                value == expression(expr.value, object.curr_id)
            IN  [node |-> [expr EXCEPT !.object = object.node, !.value = value.node],
                 curr_id |-> value.curr_id]
      [] expr.t = "Grouping" ->
            LET e == expression(expr.expression, curr_id)
            IN  [node |-> [expr EXCEPT !.expression = e.node], curr_id |-> e.curr_id]
      [] expr.t = "Unary" ->
            LET right == expression(expr.right, curr_id)
            IN  [node |-> [expr EXCEPT !.right = right.node], curr_id |-> right.curr_id]
      [] OTHER -> [node |-> expr, curr_id |-> curr_id]

declarations(statements, i, curr_id, done) ==
    IF i > Len(statements)
    THEN [node |-> done, curr_id |-> curr_id]
    ELSE LET d == declaration(statements[i], curr_id)
         IN  declarations(statements, i + 1, d.curr_id, Append(done, d.node))

declaration(stmt, curr_id) ==
    CASE stmt.t \in {"Expression", "Print"} ->
            LET e == expression(stmt.expression, curr_id)
            IN  [node |-> [stmt EXCEPT !.expression = e.node], curr_id |-> e.curr_id]
      [] stmt.t = "Var" ->
            LET e == expression(stmt.initializer, curr_id)
            IN  [node |-> [stmt EXCEPT !.initializer = e.node], curr_id |-> e.curr_id]
      [] stmt.t = "Return" ->
            LET e == expression(stmt.value, curr_id)
            IN  [node |-> [stmt EXCEPT !.value = e.node], curr_id |-> e.curr_id]
      [] stmt.t = "Block" ->
            LET b == declarations(stmt.statements, 1, curr_id, <<>>)
            IN  [node |-> [stmt EXCEPT !.statements = b.node], curr_id |-> b.curr_id]
      [] stmt.t = "Function" ->
            LET b == declarations(stmt.body, 1, curr_id, <<>>)
            IN  [node |-> [stmt EXCEPT !.body = b.node], curr_id |-> b.curr_id]
      [] stmt.t = "If" ->
            LET c == expression(stmt.expression, curr_id)
                then_branch == declaration(stmt.then_branch, c.curr_id)
                else_branch == declaration(stmt.else_branch, then_branch.curr_id)
            IN  [node |-> [stmt EXCEPT !.expression = c.node,
                                       !.then_branch = then_branch.node,
                                       !.else_branch = else_branch.node],
                 curr_id |-> else_branch.curr_id]
      [] stmt.t = "While" ->
            LET c == expression(stmt.expression, curr_id)
                body == declaration(stmt.body, c.curr_id)
            IN  [node |-> [stmt EXCEPT !.expression = c.node, !.body = body.node],
                 curr_id |-> body.curr_id]
      [] stmt.t = "Class" ->
            LET superclass == IF stmt.superclass = NoSuperclass
                              THEN [node |-> NoSuperclass, curr_id |-> curr_id]
                              ELSE expression(stmt.superclass, curr_id)
                methods == declarations(stmt.methods, 1, superclass.curr_id, <<>>)
            IN  [node |-> [stmt EXCEPT !.superclass = superclass.node,
                                       !.methods = methods.node],
                 curr_id |-> methods.curr_id]

\* Parser::new(tokens).parse() of a text whose tree is `tree`
parse(tree) == declarations(tree, 1, 0, <<>>).node

\* ------------------------------------------------------------------------
\* parser.rs on tokens.  The parser is [tokens, current, curr_id, reports]:
\* reports are the messages handed to lox::token_error.  A parsing function
\* takes the parser and gives [p |-> the parser after it, r |-> Ok(node) or
\* Err(message)].
\* ------------------------------------------------------------------------
Token(token_type, lexeme, literal, at) ==
    [token_type |-> token_type, lexeme |-> lexeme, literal |-> literal, line |-> at]

Err(msg) == [kind |-> "Err", msg |-> msg]

\* log is the history of what assignment and for_statement built; the parser
\* does not read it
Parser_new(tokens) ==
    [tokens |-> tokens, current |-> 0, curr_id |-> 0, reports |-> <<>>, log |-> <<>>]

Parser_observe(p, event) == [p EXCEPT !.log = Append(@, event)]

peek(p) == p.tokens[p.current + 1]

is_at_end(p) == peek(p).token_type = "EOF"

check(p, token_type) == ~is_at_end(p) /\ peek(p).token_type = token_type

advance(p) == IF is_at_end(p) THEN p ELSE [p EXCEPT !.current = @ + 1]

\* whether match_token(types) returns true; it then has advanced
match_token(p, types) == \E token_type \in types : check(p, token_type)

\* the token take_previous returns, and the parser it leaves: the token is
\* replaced in the vector (mem::replace)
previous(p) == p.tokens[p.current]

take_previous(p) == [p EXCEPT !.tokens[p.current] = Token("NIL", "", LOX_NULL, -1)]

Parser_token_error(p, message) == [p EXCEPT !.reports = Append(@, message)]

consume(p, token_type, message) ==
    IF check(p, token_type)
    THEN [p |-> take_previous(advance(p)), r |-> Ok(peek(p))]
    ELSE [p |-> Parser_token_error(p, message), r |-> Err(message)]

RECURSIVE Parser_expression(_)
RECURSIVE Parser_unary(_)
RECURSIVE Parser_declaration(_)
RECURSIVE Parser_statement(_)

\* the loop of finish_call after the first argument
RECURSIVE finish_call_loop(_, _)
finish_call_loop(p, arguments) ==
    IF match_token(p, {"COMMA"})
    THEN Try(Parser_expression(advance(p)), LAMBDA x:
             finish_call_loop(x.p, Append(arguments, x.r.v)))
    ELSE [p |-> p, r |-> Ok(arguments)]

finish_call(p, callee) ==
    Try(IF check(p, "RIGHT_PAREN")
        THEN [p |-> p, r |-> Ok(<<>>)]
        ELSE Try(Parser_expression(p), LAMBDA x: finish_call_loop(x.p, <<x.r.v>>)),
        LAMBDA arguments:
    Try(consume(arguments.p, "RIGHT_PAREN", "Expect ')' after arguments."), LAMBDA paren:
        [p |-> paren.p, r |-> Ok(Call(callee, arguments.r.v))]))

primary(p) ==
    CASE match_token(p, {"NUMBER", "STRING"}) ->
            [p |-> take_previous(advance(p)), r |-> Ok(Literal(peek(p).literal))]
      [] match_token(p, {"TRUE"}) -> [p |-> advance(p), r |-> Ok(Literal(LOX_BOOL(TRUE)))]
      [] match_token(p, {"FALSE"}) -> [p |-> advance(p), r |-> Ok(Literal(LOX_BOOL(FALSE)))]
      [] match_token(p, {"NIL"}) -> [p |-> advance(p), r |-> Ok(Literal(LOX_NULL))]
      [] match_token(p, {"IDENTIFIER"}) ->
            [p |-> [take_previous(advance(p)) EXCEPT !.curr_id = @ + 1],
             r |-> Ok(Variable(peek(p).lexeme, p.curr_id))]
      [] match_token(p, {"LEFT_PAREN"}) ->
            Try(Parser_expression(advance(p)), LAMBDA x:
            Try(consume(x.p, "RIGHT_PAREN", "Expect ')' after expression."), LAMBDA paren:
                [p |-> paren.p, r |-> Ok(Grouping(x.r.v))]))
      [] OTHER -> [p |-> Parser_token_error(p, "Expected expression"),
                   r |-> Err("Expected expression")]

\* a property access (spec 4.1, the rule `call`; spec 3, Get): the name after
\* the dot
get_property(p, object) ==
    Try(consume(p, "IDENTIFIER", "Expect property name after '.'."), LAMBDA name:
        [p |-> name.p, r |-> Ok(Get(object, name.r.v.lexeme))])

\* Assignment desugaring of a Get target (spec 4.1)
set_property(target, value) == Set(target.object, target.name, value)

\* the loop of call; the arm of the dot is the one of get_property
RECURSIVE call_loop(_, _)
call_loop(p, expr) ==
    CASE match_token(p, {"LEFT_PAREN"}) ->
            Try(finish_call(advance(p), expr), LAMBDA x: call_loop(x.p, x.r.v))
      [] match_token(p, {"DOT"}) ->
            Try(get_property(advance(p), expr), LAMBDA x: call_loop(x.p, x.r.v))
      [] OTHER -> [p |-> p, r |-> Ok(expr)]

call(p) == Try(primary(p), LAMBDA x: call_loop(x.p, x.r.v))

Parser_unary(p) ==
    IF match_token(p, {"BANG", "MINUS"})
    THEN Try(Parser_unary(take_previous(advance(p))), LAMBDA right:
             [p |-> right.p, r |-> Ok(Unary(peek(p).token_type, right.r.v))])
    ELSE call(p)

NoLeft == [expr |-> Literal(LOX_NULL), operator |-> Token("NIL", "", LOX_NULL, -1)]

\* factor: Parser_unary { operator Parser_unary }.  `left` is the left operand and
\* the operator taken after it, NoLeft before the first operand
RECURSIVE factor_loop(_, _)
factor_loop(p, left) ==
    Try(Parser_unary(p), LAMBDA right:
        Let(IF left = NoLeft THEN right.r.v
            ELSE BinaryAt(left.expr, left.operator.token_type, left.operator.line, right.r.v),
            LAMBDA expr:
            IF match_token(right.p, {"SLASH", "STAR"})
            THEN factor_loop(take_previous(advance(right.p)),
                       [expr |-> expr, operator |-> peek(right.p)])
            ELSE [p |-> right.p, r |-> Ok(expr)]))

factor(p) == factor_loop(p, NoLeft)

\* term: factor { operator factor }.  `left` is the left operand and
\* the operator taken after it, NoLeft before the first operand
RECURSIVE term_loop(_, _)
term_loop(p, left) ==
    Try(factor(p), LAMBDA right:
        Let(IF left = NoLeft THEN right.r.v
            ELSE BinaryAt(left.expr, left.operator.token_type, left.operator.line, right.r.v),
            LAMBDA expr:
            IF match_token(right.p, {"MINUS", "PLUS"})
            THEN term_loop(take_previous(advance(right.p)),
                     [expr |-> expr, operator |-> peek(right.p)])
            ELSE [p |-> right.p, r |-> Ok(expr)]))

term(p) == term_loop(p, NoLeft)

\* comparison: term { operator term }.  `left` is the left operand and
\* the operator taken after it, NoLeft before the first operand
RECURSIVE comparison_loop(_, _)
comparison_loop(p, left) ==
    Try(term(p), LAMBDA right:
        Let(IF left = NoLeft THEN right.r.v
            ELSE BinaryAt(left.expr, left.operator.token_type, left.operator.line, right.r.v),
            LAMBDA expr:
            IF match_token(right.p, {"GREATER", "GREATER_EQUAL", "LESS", "LESS_EQUAL"})
            THEN comparison_loop(take_previous(advance(right.p)),
                           [expr |-> expr, operator |-> peek(right.p)])
            ELSE [p |-> right.p, r |-> Ok(expr)]))

comparison(p) == comparison_loop(p, NoLeft)

\* equality: comparison { operator comparison }.  `left` is the left operand and
\* the operator taken after it, NoLeft before the first operand
RECURSIVE equality_loop(_, _)
equality_loop(p, left) ==
    Try(comparison(p), LAMBDA right:
        Let(IF left = NoLeft THEN right.r.v
            ELSE BinaryAt(left.expr, left.operator.token_type, left.operator.line, right.r.v),
            LAMBDA expr:
            IF match_token(right.p, {"BANG_EQUAL", "EQUAL_EQUAL"})
            THEN equality_loop(take_previous(advance(right.p)),
                         [expr |-> expr, operator |-> peek(right.p)])
            ELSE [p |-> right.p, r |-> Ok(expr)]))

equality(p) == equality_loop(p, NoLeft)

\* and: equality { operator equality }.  `left` is the left operand and
\* the operator taken after it, NoLeft before the first operand
RECURSIVE and_loop(_, _)
and_loop(p, left) ==
    Try(equality(p), LAMBDA right:
        Let(IF left = NoLeft THEN right.r.v
            ELSE Logical(left.expr, left.operator.token_type, right.r.v),
            LAMBDA expr:
            IF match_token(right.p, {"AND"})
            THEN and_loop(take_previous(advance(right.p)),
                    [expr |-> expr, operator |-> peek(right.p)])
            ELSE [p |-> right.p, r |-> Ok(expr)]))

and(p) == and_loop(p, NoLeft)

\* or: and { operator and }.  `left` is the left operand and
\* the operator taken after it, NoLeft before the first operand
RECURSIVE or_loop(_, _)
or_loop(p, left) ==
    Try(and(p), LAMBDA right:
        Let(IF left = NoLeft THEN right.r.v
            ELSE Logical(left.expr, left.operator.token_type, right.r.v),
            LAMBDA expr:
            IF match_token(right.p, {"OR"})
            THEN or_loop(take_previous(advance(right.p)),
                   [expr |-> expr, operator |-> peek(right.p)])
            ELSE [p |-> right.p, r |-> Ok(expr)]))

or(p) == or_loop(p, NoLeft)

\* what assignment did with `target = value`, for the log: out is what it
\* returns
assigned(target, value, out) ==
    [p |-> Parser_observe(out.p, [e |-> "assignment", target |-> target.r.v,
                                  value |-> value.r.v, node |-> out.r,
                                  curr_id |-> value.p.curr_id, next_id |-> out.p.curr_id,
                                  reports |-> value.p.reports, reported |-> out.p.reports]),
     r |-> out.r]

\* assignment that yields an invalid target without a report
RECURSIVE assignment_unreported(_)
assignment_unreported(p) ==
    Try(or(p), LAMBDA expr:
        IF match_token(expr.p, {"EQUAL"})
        THEN Try(assignment_unreported(take_previous(advance(expr.p))), LAMBDA value:
                 assigned(expr, value,
                     CASE expr.r.v.t = "Variable" ->
                             [p |-> [value.p EXCEPT !.curr_id = @ + 1],
                              r |-> Ok(Assign(expr.r.v.name, value.r.v, value.p.curr_id))]
                       [] expr.r.v.t = "Get" ->
                             [p |-> value.p, r |-> Ok(set_property(expr.r.v, value.r.v))]
                       [] OTHER -> [p |-> value.p, r |-> Ok(expr.r.v)]))
        ELSE expr)

\* the arm of a Get target is the one of set_property
RECURSIVE assignment(_)
assignment(p) ==
    Try(or(p), LAMBDA expr:
        IF match_token(expr.p, {"EQUAL"})
        THEN Try(assignment(take_previous(advance(expr.p))), LAMBDA value:
                 assigned(expr, value,
                     CASE expr.r.v.t = "Variable" ->
                             [p |-> [value.p EXCEPT !.curr_id = @ + 1],
                              r |-> Ok(Assign(expr.r.v.name, value.r.v, value.p.curr_id))]
                       [] expr.r.v.t = "Get" ->
                             [p |-> value.p, r |-> Ok(set_property(expr.r.v, value.r.v))]
                       [] OTHER ->
                             [p |-> Parser_token_error(value.p, "Invalid assignment target."),
                              r |-> Ok(expr.r.v)]))
        ELSE expr)

Parser_expression(p) == assignment(p)

print_statement(p) ==
    Try(Parser_expression(p), LAMBDA value:
    Try(consume(value.p, "SEMICOLON", "Expect ';' after value"), LAMBDA semicolon:
        [p |-> semicolon.p, r |-> Ok(PrintStmt(value.r.v))]))

expression_statement(p) ==
    Try(Parser_expression(p), LAMBDA expr:
    Try(consume(expr.p, "SEMICOLON", "Expect ';' after expression"), LAMBDA semicolon:
        [p |-> semicolon.p, r |-> Ok(Expression(expr.r.v))]))

\* the loop of block_statement
RECURSIVE block_statement_loop(_, _)
block_statement_loop(p, statements) ==
    IF ~check(p, "RIGHT_BRACE") /\ ~is_at_end(p)
    THEN Try(Parser_declaration(p), LAMBDA x:
             block_statement_loop(x.p, Append(statements, x.r.v)))
    ELSE [p |-> p, r |-> Ok(statements)]

block_statement(p) ==
    Try(block_statement_loop(p, <<>>), LAMBDA statements:
    Try(consume(statements.p, "RIGHT_BRACE", "Expect '}' after block."), LAMBDA brace:
        [p |-> brace.p, r |-> Ok(statements.r.v)]))

if_statement(p) ==
    Try(consume(p, "LEFT_PAREN", "Expect '(' after 'if'"), LAMBDA open:
    Try(Parser_expression(open.p), LAMBDA condition:
    Try(consume(condition.p, "RIGHT_PAREN", "Expect ')' after if-condition"), LAMBDA close:
    Try(Parser_statement(close.p), LAMBDA then_branch:
        IF match_token(then_branch.p, {"ELSE"})
        THEN Try(Parser_statement(advance(then_branch.p)), LAMBDA else_branch:
                 [p |-> else_branch.p,
                  r |-> Ok(If(condition.r.v, then_branch.r.v, else_branch.r.v))])
        ELSE [p |-> then_branch.p, r |-> Ok(If(condition.r.v, then_branch.r.v, NoElse))]))))

while_statement(p) ==
    Try(consume(p, "LEFT_PAREN", "Expect '(' after 'while'"), LAMBDA open:
    Try(Parser_expression(open.p), LAMBDA condition:
    Try(consume(condition.p, "RIGHT_PAREN", "Expect ')' after while-condition"), LAMBDA close:
    Try(Parser_statement(close.p), LAMBDA body:
        [p |-> body.p, r |-> Ok(While(condition.r.v, body.r.v))]))))

var_declaration(p) ==
    Try(consume(p, "IDENTIFIER", "Expect variable name."), LAMBDA name:
    Try(IF match_token(name.p, {"EQUAL"})
        THEN Parser_expression(advance(name.p))
        ELSE [p |-> name.p, r |-> Ok(Literal(LOX_NULL))], LAMBDA initializer:
    Try(consume(initializer.p, "SEMICOLON", "Expect ';' after variable declaration."),
        LAMBDA semicolon:
        [p |-> semicolon.p, r |-> Ok(Var(name.r.v.lexeme, initializer.r.v))])))

\* the initializer clause of for_statement: both match_token calls of the
\* matched pair are made, in order
for_initializer(p) ==
    IF match_token(p, {"SEMICOLON"})
    THEN [p |-> IF match_token(advance(p), {"VAR"}) THEN advance(advance(p)) ELSE advance(p),
          r |-> Ok([had |-> FALSE, stmt |-> Expression(Literal(LOX_NULL))])]
    ELSE IF match_token(p, {"VAR"})
         THEN Try(var_declaration(advance(p)), LAMBDA x:
                  [p |-> x.p, r |-> Ok([had |-> TRUE, stmt |-> x.r.v])])
         ELSE Try(expression_statement(p), LAMBDA x:
                  [p |-> x.p, r |-> Ok([had |-> TRUE, stmt |-> x.r.v])])

\* a de-sugaring that keeps a block body as one statement of the loop's block
for_loop_unspliced(initializer, condition, increment, body) ==
    Let(While(condition,
              Block(<<body>> \o (IF increment.had THEN <<Expression(increment.expr)>> ELSE <<>>))),
        LAMBDA loop:
        IF initializer.had THEN Block(<<initializer.stmt, loop>>) ELSE loop)

\* the de-sugaring of for_statement
for_loop(initializer, condition, increment, body) ==
    Let(While(condition,
              Block((IF body.t = "Block" THEN body.statements ELSE <<body>>)
                    \o (IF increment.had THEN <<Expression(increment.expr)>> ELSE <<>>))),
        LAMBDA loop:
        IF initializer.had THEN Block(<<initializer.stmt, loop>>) ELSE loop)

for_statement(p) ==
    Try(consume(p, "LEFT_PAREN", "Expect '(' after 'for'"), LAMBDA open:
    Try(for_initializer(open.p), LAMBDA initializer:
    Try(IF ~check(initializer.p, "SEMICOLON")
        THEN Parser_expression(initializer.p)
        ELSE [p |-> initializer.p, r |-> Ok(Literal(LOX_BOOL(TRUE)))], LAMBDA condition:
    Try(consume(condition.p, "SEMICOLON", "Expect ';' after loop condition"), LAMBDA semicolon:
    Try(IF ~check(semicolon.p, "RIGHT_PAREN")
        THEN Try(Parser_expression(semicolon.p), LAMBDA x:
                 [p |-> x.p, r |-> Ok([had |-> TRUE, expr |-> x.r.v])])
        ELSE [p |-> semicolon.p, r |-> Ok([had |-> FALSE, expr |-> Literal(LOX_NULL)])],
        LAMBDA increment:
    Try(consume(increment.p, "RIGHT_PAREN", "Expect ')' after for clause"), LAMBDA close:
    Try(Parser_statement(close.p), LAMBDA body:
    Let(for_loop(initializer.r.v, condition.r.v, increment.r.v, body.r.v), LAMBDA node:
        [p |-> Parser_observe(body.p, [e |-> "for_statement",
                                       initializer |-> initializer.r.v,
                                       condition |-> condition.r.v,
                                       omitted |-> check(initializer.p, "SEMICOLON"),
                                       increment |-> increment.r.v,
                                       body |-> body.r.v, node |-> node]),
         r |-> Ok(node)]))))))))

return_statement(p) ==
    Try(IF ~check(p, "SEMICOLON")
        THEN Parser_expression(take_previous(p))
        ELSE [p |-> take_previous(p), r |-> Ok(Literal(LOX_NULL))], LAMBDA value:
    Try(consume(value.p, "SEMICOLON", "Expect ';' after return value."), LAMBDA semicolon:
        [p |-> semicolon.p, r |-> Ok(Return(value.r.v))]))

Parser_statement(p) ==
    CASE match_token(p, {"PRINT"}) -> print_statement(advance(p))
      [] match_token(p, {"LEFT_BRACE"}) ->
            Try(block_statement(advance(p)), LAMBDA statements:
                [p |-> statements.p, r |-> Ok(Block(statements.r.v))])
      [] match_token(p, {"IF"}) -> if_statement(advance(p))
      [] match_token(p, {"WHILE"}) -> while_statement(advance(p))
      [] match_token(p, {"FOR"}) -> for_statement(advance(p))
      [] match_token(p, {"RETURN"}) -> return_statement(advance(p))
      [] OTHER -> expression_statement(p)

\* the parameters of function_declaration after the first
RECURSIVE parameters_loop(_, _)
parameters_loop(p, parameters) ==
    IF match_token(p, {"COMMA"})
    THEN Try(consume(advance(p), "IDENTIFIER", "Expect parameter name."), LAMBDA x:
             parameters_loop(x.p, Append(parameters, x.r.v.lexeme)))
    ELSE [p |-> p, r |-> Ok(parameters)]

\* function_declaration(String::from("function"))
function_declaration(p) ==
    Try(consume(p, "IDENTIFIER", "Expect function name"), LAMBDA name:
    Try(consume(name.p, "LEFT_PAREN", "Expect '(' after function name"), LAMBDA open:
    Try(IF check(open.p, "RIGHT_PAREN")
        THEN [p |-> open.p, r |-> Ok(<<>>)]
        ELSE Try(consume(open.p, "IDENTIFIER", "Expect parameter name."), LAMBDA x:
                 parameters_loop(x.p, <<x.r.v.lexeme>>)), LAMBDA parameters:
    Try(consume(parameters.p, "RIGHT_PAREN", "Expect ')' after parameters."), LAMBDA close:
    Try(consume(close.p, "LEFT_BRACE", "Expect '{' before function body"), LAMBDA brace:
    Try(block_statement(brace.p), LAMBDA body:
        [p |-> body.p, r |-> Ok(Function(name.r.v.lexeme, parameters.r.v, body.r.v))]))))))

\* the parser never leaves synchronize
Diverges == [kind |-> "Diverges"]

\* the loop of synchronize.  An iteration that neither returns nor changes
\* the parser is repeated for ever: nothing in the loop advances
RECURSIVE synchronize_loop(_)
synchronize_loop(p) ==
    CASE is_at_end(p) -> [p |-> advance(p), r |-> Ok(LOX_NULL)]
      [] previous(p).token_type = "SEMICOLON" -> [p |-> take_previous(p), r |-> Ok(LOX_NULL)]
      [] peek(p).token_type \in {"CLASS", "FUN", "VAR", "FOR", "IF", "WHILE", "PRINT", "RETURN"} ->
            [p |-> take_previous(p), r |-> Ok(LOX_NULL)]
      [] take_previous(p) = p -> [p |-> p, r |-> Diverges]
      [] OTHER -> synchronize_loop(take_previous(p))

synchronize(p) == synchronize_loop(advance(p))

Parser_declaration(p) ==
    CASE match_token(p, {"FUN"}) -> function_declaration(advance(p))
      [] match_token(p, {"VAR"}) -> var_declaration(advance(p))
      [] OTHER ->
            Let(Parser_statement(p), LAMBDA x:
                IF x.r.kind = "Err"
                THEN Try(synchronize(x.p), LAMBDA recovered: [p |-> recovered.p, r |-> x.r])
                ELSE x)

\* the loop of Parser::parse
RECURSIVE parse_loop(_, _)
parse_loop(p, statements) ==
    IF ~is_at_end(p)
    THEN Try(Parser_declaration(p), LAMBDA x: parse_loop(x.p, Append(statements, x.r.v)))
    ELSE [p |-> p, r |-> Ok(statements)]

Parser_parse(p) == parse_loop(p, <<>>)

\* ------------------------------------------------------------------------
\* lox.rs: the driver.  `lox` is the record of the statics and of stderr:
\*   [HAD_ERROR, HAD_RUNTIME_ERROR, stderr]
\* A source text is [scan, parse_reports, parse_is_err, parse_diverges, tree]:
\* the messages the scanner hands to lox::error, the messages the parser hands
\* to lox::error / lox::token_error, whether Parser::parse returns Err,
\* whether it never returns, and the tree it returns otherwise.  run gives
\* [lox, locals, interpret, returns]; pc = "synchronize" is a run that stays
\* in Parser::synchronize.
\* ------------------------------------------------------------------------
Interpreter_new ==
    [envs |-> <<[values |-> ("clock" :> LOX_CALLABLE(1)), enclosing |-> 0]>>,
     curr_env |-> GlobalEnv,
     locals |-> NoLocals,
     functions |-> <<>>, classes |-> <<>>, instances |-> <<>>,
     callables |-> <<[kind |-> "Native", ref |-> 0]>>,
     stdout |-> <<>>, now |-> 0, depth |-> 0, log |-> <<>>,
     frames |-> <<>>]

report(lox, message) ==
    [lox EXCEPT !.stderr = Append(@, [kind |-> "Syntax Error", msg |-> message]),
                !.HAD_ERROR = TRUE]

\* the calls of lox::error / lox::token_error made by one pass, in order
RECURSIVE report_all(_, _, _)
report_all(lox, messages, i) ==
    IF i > Len(messages) THEN lox ELSE report_all(report(lox, messages[i]), messages, i + 1)

runtime_error(lox, error) ==
    [lox EXCEPT !.stderr = IF error.kind = "OperatorError"
                           THEN Append(@, [kind |-> "Runtime Error", line |-> error.line,
                                           msg |-> error.msg])
                           ELSE @,
                !.HAD_RUNTIME_ERROR = TRUE]

\* run without `if unsafe { HAD_ERROR } { return; }` after the resolver
run_unchecked(lox, locals, source) ==
    Let(report_all(report_all(lox, source.scan, 1), source.parse_reports, 1), LAMBDA parsed:
        IF source.parse_is_err \/ source.parse_diverges
        THEN [lox |-> parsed, locals |-> locals, interpret |-> FALSE,
              returns |-> ~source.parse_diverges]
        ELSE Let(resolve_statements(Resolver_new(locals), parse(source.tree), 1),
                 LAMBDA resolver:
             Let(report_all(parsed, resolver.reports, 1), LAMBDA resolved:
                 [lox |-> resolved, locals |-> resolver.locals, interpret |-> TRUE,
                  returns |-> TRUE])))

\* run, up to the call of Interpreter::interpret: the statics, the
\* interpreter's locals and whether interpret is called
run(lox, locals, source) ==
    Let(report_all(report_all(lox, source.scan, 1), source.parse_reports, 1), LAMBDA parsed:
        IF source.parse_is_err \/ source.parse_diverges
        THEN [lox |-> parsed, locals |-> locals, interpret |-> FALSE,
              returns |-> ~source.parse_diverges]
        ELSE Let(resolve_statements(Resolver_new(locals), parse(source.tree), 1),
                 LAMBDA resolver:
             Let(report_all(parsed, resolver.reports, 1), LAMBDA resolved:
                 [lox |-> resolved, locals |-> resolver.locals,
                  interpret |-> ~resolved.HAD_ERROR, returns |-> TRUE])))

\* ------------------------------------------------------------------------
\* Source texts.  Trees are written as the parser builds them, ids unstamped.
\* ------------------------------------------------------------------------
NumberLit(n) == Literal(LOX_NUMBER(n))
StringLit(str) == Literal(LOX_STRING(str))
NilLit == Literal(LOX_NULL)
Identifier(name) == Variable(name, 0)
AssignTo(name, value) == Assign(name, value, 0)
ThisExpr == This(0)
SuperExpr(method) == Super(method, 0)

Text(tree) ==
    [scan |-> <<>>, parse_reports |-> <<>>, parse_is_err |-> FALSE, parse_diverges |-> FALSE,
     tree |-> tree]

\* the text whose tokens are `tokens`, as Parser::parse takes it
Scanned(tokens) ==
    Let(Parser_parse(Parser_new(tokens)), LAMBDA x:
        [scan |-> <<>>, parse_reports |-> x.p.reports, parse_is_err |-> x.r.kind = "Err",
         parse_diverges |-> x.r.kind = "Diverges",
         tree |-> IF x.r.kind = "Ok" THEN x.r.v ELSE <<>>,
         log |-> x.p.log,
         tokens |-> tokens])

\* var a = "global";
\* { fun showA() { print a; } showA(); var a = "block"; showA(); }
ShadowGlobal ==
    Text(<< Var("a", StringLit("global")),
            Block(<< Function("showA", <<>>, << PrintStmt(Identifier("a")) >>),
                     Expression(Call(Identifier("showA"), <<>>)),
                     Var("a", StringLit("block")),
                     Expression(Call(Identifier("showA"), <<>>)) >>) >>)

\* var h;
\* { var a = "outer";
\*   { fun show() { print a; } h = show; h(); var a = "inner"; h(); } }
ShadowNested ==
    Text(<< Var("h", NilLit),
            Block(<< Var("a", StringLit("outer")),
                     Block(<< Function("show", <<>>, << PrintStmt(Identifier("a")) >>),
                              Expression(AssignTo("h", Identifier("show"))),
                              Expression(Call(Identifier("h"), <<>>)),
                              Var("a", StringLit("inner")),
                              Expression(Call(Identifier("h"), <<>>)) >>) >>) >>)

\* var a = "global"; fun f() { var a = "local"; fun h() { print a; } h(); } f();
ShadowLine1 ==
    Text(<< Var("a", StringLit("global")),
            Function("f", <<>>,
                     << Var("a", StringLit("local")),
                        Function("h", <<>>, << PrintStmt(Identifier("a")) >>),
                        Expression(Call(Identifier("h"), <<>>)) >>),
            Expression(Call(Identifier("f"), <<>>)) >>)

\* { var z; { { z; } } }
ShadowLine2 ==
    Text(<< Block(<< Var("z", NilLit),
                     Block(<< Block(<< Expression(Identifier("z")) >>) >>) >>) >>)

\* var q; q = 1; f();
ShadowLine3 ==
    Text(<< Var("q", NilLit),
            Expression(AssignTo("q", NumberLit(1))),
            Expression(Call(Identifier("f"), <<>>)) >>)

\* fun m() { return "global"; }  class A { m() { return m; } }  print A().m();
MethodName ==
    Text(<< Function("m", <<>>, << Return(StringLit("global")) >>),
            Class("A", NoSuperclass,
                  << Function("m", <<>>, << Return(Identifier("m")) >>) >>),
            PrintStmt(Call(Get(Call(Identifier("A"), <<>>), "m"), <<>>)) >>)

\* { var v = "v";
\*   class A { a() { return "a"; } }
\*   class B < A { t() { return v; } u() { return super.a(); } }
\*   var b = B(); print b.t(); print b.u(); }
SuperEmptied ==
    Text(<< Block(<< Var("v", StringLit("v")),
                     Class("A", NoSuperclass,
                           << Function("a", <<>>, << Return(StringLit("a")) >>) >>),
                     Class("B", Identifier("A"),
                           << Function("t", <<>>, << Return(Identifier("v")) >>),
                              Function("u", <<>>,
                                       << Return(Call(SuperExpr("a"), <<>>)) >>) >>),
                     Var("b", Call(Identifier("B"), <<>>)),
                     PrintStmt(Call(Get(Identifier("b"), "t"), <<>>)),
                     PrintStmt(Call(Get(Identifier("b"), "u"), <<>>)) >>) >>)

\* { var a = 1; print a; a = 2; }
StaleLine1 ==
    Text(<< Block(<< Var("a", NumberLit(1)),
                     PrintStmt(Identifier("a")),
                     Expression(AssignTo("a", NumberLit(2))) >>) >>)

\* var b = 1; { print b; b = 2; } print b;
StaleLine2 ==
    Text(<< Var("b", NumberLit(1)),
            Block(<< PrintStmt(Identifier("b")),
                     Expression(AssignTo("b", NumberLit(2))) >>),
            PrintStmt(Identifier("b")) >>)

\* { var a = 1; { var b = 2; { a = 3; } print b; } }
AssignEmpties ==
    Text(<< Block(<< Var("a", NumberLit(1)),
                     Block(<< Var("b", NumberLit(2)),
                              Block(<< Expression(AssignTo("a", NumberLit(3))) >>),
                              PrintStmt(Identifier("b")) >>) >>) >>)

\* var g = "global"; fun f() { while (true) { { class B < g {} } } } f();
\* print "unreached";
DeepLine1 ==
    Text(<< Var("g", StringLit("global")),
            Function("f", <<>>,
                     << While(Literal(LOX_BOOL(TRUE)),
                              Block(<< Block(<< Class("B", Identifier("g"), <<>>) >>) >>)) >>),
            Expression(Call(Identifier("f"), <<>>)),
            PrintStmt(StringLit("unreached")) >>)

\* class A { m() { { return -"x"; } } } { A().m(); }
DeepLine2 ==
    Text(<< Class("A", NoSuperclass,
                  << Function("m", <<>>,
                              << Block(<< Return(Unary("MINUS", StringLit("x"))) >>) >>) >>),
            Block(<< Expression(Call(Get(Call(Identifier("A"), <<>>), "m"), <<>>)) >>) >>)

\* { class C {} class D < C { m() { return nil(); } } D().m(); }
DeepLine3 ==
    Text(<< Block(<< Class("C", NoSuperclass, <<>>),
                     Class("D", Identifier("C"),
                           << Function("m", <<>>, << Return(Call(NilLit, <<>>)) >>) >>),
                     Expression(Call(Get(Call(Identifier("D"), <<>>), "m"), <<>>)) >>) >>)

\* print g;
DeepLine4 == Text(<< PrintStmt(Identifier("g")) >>)

\* fun mk() { var i = 0; fun inc() { i = i + 1; print i; } return inc; }
\* var c = mk(); c(); c();
ClosureCounter ==
    Text(<< Function("mk", <<>>,
                     << Var("i", NumberLit(0)),
                        Function("inc", <<>>,
                                 << Expression(AssignTo("i", Binary(Identifier("i"), "PLUS",
                                                                  NumberLit(1)))),
                                    PrintStmt(Identifier("i")) >>),
                        Return(Identifier("inc")) >>),
            Var("c", Call(Identifier("mk"), <<>>)),
            Expression(Call(Identifier("c"), <<>>)),
            Expression(Call(Identifier("c"), <<>>)) >>)

\* { var x = 1; fun get() { print x; } fun set() { x = 3; } x = 2; get(); set(); print x; }
ClosureShared ==
    Text(<< Block(<< Var("x", NumberLit(1)),
                     Function("get", <<>>, << PrintStmt(Identifier("x")) >>),
                     Function("set", <<>>, << Expression(AssignTo("x", NumberLit(3))) >>),
                     Expression(AssignTo("x", NumberLit(2))),
                     Expression(Call(Identifier("get"), <<>>)),
                     Expression(Call(Identifier("set"), <<>>)),
                     PrintStmt(Identifier("x")) >>) >>)

\* var h;
\* { var i = 1; { fun f() { print i; } h = f; h(); } i = 2; h(); }
ClosureNested ==
    Text(<< Var("h", NilLit),
            Block(<< Var("i", NumberLit(1)),
                     Block(<< Function("f", <<>>, << PrintStmt(Identifier("i")) >>),
                              Expression(AssignTo("h", Identifier("f"))),
                              Expression(Call(Identifier("h"), <<>>)) >>),
                     Expression(AssignTo("i", NumberLit(2))),
                     Expression(Call(Identifier("h"), <<>>)) >>) >>)

\* fun f() { print "in f"; nil(); print "unreached"; } f(); print "after";
ErrorInFunction ==
    Text(<< Function("f", <<>>, << PrintStmt(StringLit("in f")),
                                   Expression(Call(NilLit, <<>>)),
                                   PrintStmt(StringLit("unreached")) >>),
            Expression(Call(Identifier("f"), <<>>)),
            PrintStmt(StringLit("after")) >>)

\* class A { m() { -"x"; } } A().m(); print "after";
ErrorInMethod ==
    Text(<< Class("A", NoSuperclass,
                  << Function("m", <<>>, << Expression(Unary("MINUS", StringLit("x"))) >>) >>),
            Expression(Call(Get(Call(Identifier("A"), <<>>), "m"), <<>>)),
            PrintStmt(StringLit("after")) >>)

\* class A { init() { nil(); } } A(); print "after";
ErrorInInit ==
    Text(<< Class("A", NoSuperclass,
                  << Function("init", <<>>, << Expression(Call(NilLit, <<>>)) >>) >>),
            Expression(Call(Identifier("A"), <<>>)),
            PrintStmt(StringLit("after")) >>)

\* fun find(n) { var i = 0;
\*               while (i < MaxIter) { if (i == n) return i; i = i + 1; }
\*               return "none"; }
\* fun twice(n) { return find(n) + find(n); }
\* print twice(1); print find(MaxIter);
ReturnFromLoop ==
    Text(<< Function("find", <<"n">>,
                     << Var("i", NumberLit(0)),
                        While(Binary(Identifier("i"), "LESS", NumberLit(MaxIter)),
                              Block(<< If(Binary(Identifier("i"), "EQUAL_EQUAL",
                                                 Identifier("n")),
                                          Return(Identifier("i")), NoElse),
                                       Expression(AssignTo("i", Binary(Identifier("i"), "PLUS",
                                                                       NumberLit(1)))) >>)),
                        Return(StringLit("none")) >>),
            Function("twice", <<"n">>,
                     << Return(Binary(Call(Identifier("find"), <<Identifier("n")>>), "PLUS",
                                      Call(Identifier("find"), <<Identifier("n")>>))) >>),
            PrintStmt(Call(Identifier("twice"), <<NumberLit(1)>>)),
            PrintStmt(Call(Identifier("find"), <<NumberLit(MaxIter)>>)) >>)

\* fun f() { { { return 1; } } }  { { print f(); } }
\* fun g() { { { -"x"; } } }  { g(); }  print "after";
BlockExits ==
    Text(<< Function("f", <<>>, << Block(<< Block(<< Return(NumberLit(1)) >>) >>) >>),
            Block(<< Block(<< PrintStmt(Call(Identifier("f"), <<>>)) >>) >>),
            Function("g", <<>>,
                     << Block(<< Block(<< Expression(Unary("MINUS", StringLit("x"))) >>) >>) >>),
            Block(<< Expression(Call(Identifier("g"), <<>>)) >>),
            PrintStmt(StringLit("after")) >>)

\* fun g() {} fun h() { return; } fun k() { return 7; } print g(); print h(); print k();
ReturnValues ==
    Text(<< Function("g", <<>>, <<>>),
            Function("h", <<>>, << Return(NilLit) >>),
            Function("k", <<>>, << Return(NumberLit(7)) >>),
            PrintStmt(Call(Identifier("g"), <<>>)),
            PrintStmt(Call(Identifier("h"), <<>>)),
            PrintStmt(Call(Identifier("k"), <<>>)) >>)

\* class A { init() { this.x = 1; return; } }
\* var a = A(); print a.x; print a.init();
InitReturns ==
    Text(<< Class("A", NoSuperclass,
                  << Function("init", <<>>,
                              << Expression(Set(ThisExpr, "x", NumberLit(1))),
                                 Return(NilLit) >>) >>),
            Var("a", Call(Identifier("A"), <<>>)),
            PrintStmt(Get(Identifier("a"), "x")),
            PrintStmt(Call(Get(Identifier("a"), "init"), <<>>)) >>)

\* class B { init() { this.x = 1; } } print B().init().x;
InitCompletes ==
    Text(<< Class("B", NoSuperclass,
                  << Function("init", <<>>,
                              << Expression(Set(ThisExpr, "x", NumberLit(1))) >>) >>),
            PrintStmt(Get(Call(Get(Call(Identifier("B"), <<>>), "init"), <<>>), "x")) >>)

\* var i = 0; while (i < MaxIter) { print clock(); i = i + 1; }
LoopClock ==
    Text(<< Var("i", NumberLit(0)),
            While(Binary(Identifier("i"), "LESS", NumberLit(MaxIter)),
                  Block(<< PrintStmt(Call(Identifier("clock"), <<>>)),
                           Expression(AssignTo("i", Binary(Identifier("i"), "PLUS",
                                                           NumberLit(1)))) >>)) >>)

\* print "one"; @            (the scanner reports the stray character)
ScanError ==
    [scan |-> <<"Unexpected character.">>, parse_reports |-> <<>>, parse_is_err |-> FALSE,
     parse_diverges |-> FALSE,
     tree |-> << PrintStmt(StringLit("one")) >>]

\* print "one"; print ;      (primary reports and parse returns Err)
ParseError ==
    [scan |-> <<>>, parse_reports |-> <<"Expected expression">>, parse_is_err |-> TRUE,
     parse_diverges |-> FALSE,
     tree |-> <<>>]

\* print "one"; 1 = 2;       (assignment reports and returns the left side)
InvalidTarget ==
    [scan |-> <<>>, parse_reports |-> <<"Invalid assignment target.">>,
     parse_is_err |-> FALSE, parse_diverges |-> FALSE,
     tree |-> << PrintStmt(StringLit("one")), Expression(NumberLit(1)) >>]

\* print "one"; return 1;
TopLevelReturn ==
    Text(<< PrintStmt(StringLit("one")), Return(NumberLit(1)) >>)

\* print "one"; { var a = 1; var a = 2; }
Redeclared ==
    Text(<< PrintStmt(StringLit("one")),
            Block(<< Var("a", NumberLit(1)), Var("a", NumberLit(2)) >>) >>)

\* print "one"; { var a = a; }
OwnInitializer ==
    Text(<< PrintStmt(StringLit("one")), Block(<< Var("a", Identifier("a")) >>) >>)

\* print "one"; print this;
ThisOutsideClass ==
    Text(<< PrintStmt(StringLit("one")), PrintStmt(ThisExpr) >>)

\* print "one"; class A { init() { return 1; } }
InitReturnsValue ==
    Text(<< PrintStmt(StringLit("one")),
            Class("A", NoSuperclass,
                  << Function("init", <<>>, << Return(NumberLit(1)) >>) >>) >>)

\* print "ok";
PrintOk == Text(<< PrintStmt(StringLit("ok")) >>)

\* class P { init(x, y) { this.x = x; this.y = y; } }
\* var p = P(1, 2); print p.x; print p.y; print P(3, 4) == p;
Constructor ==
    Text(<< Class("P", NoSuperclass,
                  << Function("init", <<"x", "y">>,
                              << Expression(Set(ThisExpr, "x", Identifier("x"))),
                                 Expression(Set(ThisExpr, "y", Identifier("y"))) >>) >>),
            Var("p", Call(Identifier("P"), <<NumberLit(1), NumberLit(2)>>)),
            PrintStmt(Get(Identifier("p"), "x")),
            PrintStmt(Get(Identifier("p"), "y")),
            PrintStmt(Binary(Call(Identifier("P"), <<NumberLit(3), NumberLit(4)>>),
                             "EQUAL_EQUAL", Identifier("p"))) >>)

\* class In {} class Out { init() { this.i = In(); } } print Out().i; print In(1);
ConstructorInside ==
    Text(<< Class("In", NoSuperclass, <<>>),
            Class("Out", NoSuperclass,
                  << Function("init", <<>>,
                              << Expression(Set(ThisExpr, "i",
                                                Call(Identifier("In"), <<>>))) >>) >>),
            PrintStmt(Get(Call(Identifier("Out"), <<>>), "i")),
            PrintStmt(Call(Identifier("In"), <<NumberLit(1)>>)) >>)

\* class A { init(x) { this.x = x; } } class B < A {} print B(7).x; B();
ConstructorInherited ==
    Text(<< Class("A", NoSuperclass,
                  << Function("init", <<"x">>,
                              << Expression(Set(ThisExpr, "x", Identifier("x"))) >>) >>),
            Class("B", Identifier("A"), <<>>),
            PrintStmt(Get(Call(Identifier("B"), <<NumberLit(7)>>), "x")),
            Expression(Call(Identifier("B"), <<>>)) >>)

\* { var a = 1; class A { init() { print a; } } print A(); }
ConstructorNested ==
    Text(<< Block(<< Var("a", NumberLit(1)),
                     Class("A", NoSuperclass,
                           << Function("init", <<>>, << PrintStmt(Identifier("a")) >>) >>),
                     PrintStmt(Call(Identifier("A"), <<>>)) >>) >>)

\* class A { method() { print "A"; } }
\* class B < A { method() { print "B"; } test() { super.method(); } }
\* class C < B {}
\* C().test();
SuperMethod ==
    Text(<< Class("A", NoSuperclass,
                  << Function("method", <<>>, << PrintStmt(StringLit("A")) >>) >>),
            Class("B", Identifier("A"),
                  << Function("method", <<>>, << PrintStmt(StringLit("B")) >>),
                     Function("test", <<>>,
                              << Expression(Call(SuperExpr("method"), <<>>)) >>) >>),
            Class("C", Identifier("B"), <<>>),
            Expression(Call(Get(Call(Identifier("C"), <<>>), "test"), <<>>)) >>)

\* class A {} class B < A { test() { super.nope(); } } B().test();
SuperMissing ==
    Text(<< Class("A", NoSuperclass, <<>>),
            Class("B", Identifier("A"),
                  << Function("test", <<>>,
                              << Expression(Call(SuperExpr("nope"), <<>>)) >>) >>),
            Expression(Call(Get(Call(Identifier("B"), <<>>), "test"), <<>>)) >>)

\* class K { m() { return "method"; } who() { return this; } }
\* var k = K(); print k.m(); k.m = "field"; print k.m; print k.who() == k;
\* print k.nope; print "after";
Properties ==
    Text(<< Class("K", NoSuperclass,
                  << Function("m", <<>>, << Return(StringLit("method")) >>),
                     Function("who", <<>>, << Return(ThisExpr) >>) >>),
            Var("k", Call(Identifier("K"), <<>>)),
            PrintStmt(Call(Get(Identifier("k"), "m"), <<>>)),
            Expression(Set(Identifier("k"), "m", StringLit("field"))),
            PrintStmt(Get(Identifier("k"), "m")),
            PrintStmt(Binary(Call(Get(Identifier("k"), "who"), <<>>), "EQUAL_EQUAL",
                             Identifier("k"))),
            PrintStmt(Get(Identifier("k"), "nope")),
            PrintStmt(StringLit("after")) >>)

\* class A { hi() { return "hi"; } } class B < A { yo() { return "yo"; } }
\* var b = B(); print b.hi(); print b.yo(); print "s".x;
PropertiesInherited ==
    Text(<< Class("A", NoSuperclass,
                  << Function("hi", <<>>, << Return(StringLit("hi")) >>) >>),
            Class("B", Identifier("A"),
                  << Function("yo", <<>>, << Return(StringLit("yo")) >>) >>),
            Var("b", Call(Identifier("B"), <<>>)),
            PrintStmt(Call(Get(Identifier("b"), "hi"), <<>>)),
            PrintStmt(Call(Get(Identifier("b"), "yo"), <<>>)),
            PrintStmt(Get(StringLit("s"), "x")) >>)

\* fun g(n) { print n; return g; } g(0)(g(1), g(2)); print "after";
CallOrder ==
    Text(<< Function("g", <<"n">>, << PrintStmt(Identifier("n")),
                                      Return(Identifier("g")) >>),
            Expression(Call(Call(Identifier("g"), <<NumberLit(0)>>),
                            << Call(Identifier("g"), <<NumberLit(1)>>),
                               Call(Identifier("g"), <<NumberLit(2)>>) >>)),
            PrintStmt(StringLit("after")) >>)

\* fun g(n) { print n; return n; } g(0)(g(1)); print "after";
CallNotCallable ==
    Text(<< Function("g", <<"n">>, << PrintStmt(Identifier("n")),
                                      Return(Identifier("n")) >>),
            Expression(Call(Call(Identifier("g"), <<NumberLit(0)>>),
                            << Call(Identifier("g"), <<NumberLit(1)>>) >>)),
            PrintStmt(StringLit("after")) >>)

\* fun add(a, b) { return a + b; } print add(1, 2); print add(add(1, 2), 3); clock(1);
CallArity ==
    Text(<< Function("add", <<"a", "b">>,
                     << Return(Binary(Identifier("a"), "PLUS", Identifier("b"))) >>),
            PrintStmt(Call(Identifier("add"), <<NumberLit(1), NumberLit(2)>>)),
            PrintStmt(Call(Identifier("add"),
                           << Call(Identifier("add"), <<NumberLit(1), NumberLit(2)>>),
                              NumberLit(3) >>)),
            Expression(Call(Identifier("clock"), <<NumberLit(1)>>)) >>)

\* ------------------------------------------------------------------------
\* Sessions: run_file on one text, or run_prompt on a sequence of lines
\* ------------------------------------------------------------------------
File(source) == [mode |-> "file", sources |-> <<source>>]
Prompt(sources) == [mode |-> "prompt", sources |-> sources]

\* return;  return 1;  return "v";  return (nil);
ReturnStatements ==
    { Return(NilLit), Return(NumberLit(1)), Return(StringLit("v")), Return(Grouping(NilLit)) }

\* texts with the statement s outside every function:
\* s   { s }   fun f() { return 1; } s   if (true) s   class A { init() {} } s
OutsideFunction(s) ==
    { Text(<< s >>),
      Text(<< Block(<< s >>) >>),
      Text(<< Function("f", <<>>, << Return(NumberLit(1)) >>), s >>),
      Text(<< If(Literal(LOX_BOOL(TRUE)), s, NoElse) >>),
      Text(<< Class("A", NoSuperclass, << Function("init", <<>>, <<>>) >>), s >>) }

\* texts with s in a function or method that is not an initializer:
\* fun f() { s }   fun init() { s }   class A { m() { s } }
\* class A { init() { fun g() { s } } }   fun f() { fun g() {} { s } }
InsideFunction(s) ==
    { Text(<< Function("f", <<>>, << s >>) >>),
      Text(<< Function("init", <<>>, << s >>) >>),
      Text(<< Class("A", NoSuperclass, << Function("m", <<>>, << s >>) >>) >>),
      Text(<< Class("A", NoSuperclass,
                    << Function("init", <<>>, << Function("g", <<>>, << s >>) >>) >>) >>),
      Text(<< Function("f", <<>>, << Function("g", <<>>, <<>>), Block(<< s >>) >>) >>) }

\* texts with s in an initializer:
\* class A { init() { s } }   class A { init() { fun g() { return 1; } s } }
\* class A { m() {} init() { while (false) { s } } }
InsideInitializer(s) ==
    { Text(<< Class("A", NoSuperclass, << Function("init", <<>>, << s >>) >>) >>),
      Text(<< Class("A", NoSuperclass,
                    << Function("init", <<>>,
                                << Function("g", <<>>, << Return(NumberLit(1)) >>), s >>) >>) >>),
      Text(<< Class("A", NoSuperclass,
                    << Function("m", <<>>, <<>>),
                       Function("init", <<>>,
                                << While(Literal(LOX_BOOL(FALSE)), Block(<< s >>)) >>) >>) >>) }

\* texts that declare the name n twice in one local scope:
\* { var n = 1; var n = 2; }   fun f(n) { var n; }   fun f(n, n) {}
\* { fun n() {} var n; }   { var n; class n {} }   { var m; { var n; var n; } }
DeclaredTwice(n) ==
    { Text(<< Block(<< Var(n, NumberLit(1)), Var(n, NumberLit(2)) >>) >>),
      Text(<< Function("f", <<n>>, << Var(n, NilLit) >>) >>),
      Text(<< Function("f", <<n, n>>, <<>>) >>),
      Text(<< Block(<< Function(n, <<>>, <<>>), Var(n, NilLit) >>) >>),
      Text(<< Block(<< Var(n, NilLit), Class(n, NoSuperclass, <<>>) >>) >>),
      Text(<< Block(<< Var("m", NilLit), Block(<< Var(n, NilLit), Var(n, NilLit) >>) >>) >>) }

\* texts that read the local n in its own initializer:
\* { var n = n; }   var n = 1; { var n = n; }   { var n = 1; { var n = n + 1; } }
\* fun f() { var n = n; }
ReadInInitializer(n) ==
    { Text(<< Block(<< Var(n, Identifier(n)) >>) >>),
      Text(<< Var(n, NumberLit(1)), Block(<< Var(n, Identifier(n)) >>) >>),
      Text(<< Block(<< Var(n, NumberLit(1)),
                       Block(<< Var(n, Binary(Identifier(n), "PLUS", NumberLit(1))) >>) >>) >>),
      Text(<< Function("f", <<>>, << Var(n, Identifier(n)) >>) >>) }

\* texts that do the same at global scope, and local texts that do neither:
\* var n = 1; var n = 2;   fun n() {} var n;   var n = 1; var n = n;
\* { var n = 1; { var n = 2; } }   { var n = 1; var m = n; }   fun f(n) { { var n; } }
GlobalOrDistinct(n) ==
    { Text(<< Var(n, NumberLit(1)), Var(n, NumberLit(2)) >>),
      Text(<< Function(n, <<>>, <<>>), Var(n, NilLit) >>),
      Text(<< Var(n, NumberLit(1)), Var(n, Identifier(n)) >>),
      Text(<< Block(<< Var(n, NumberLit(1)), Block(<< Var(n, NumberLit(2)) >>) >>) >>),
      Text(<< Block(<< Var(n, NumberLit(1)), Var("m", Identifier(n)) >>) >>),
      Text(<< Function("f", <<n>>, << Block(<< Var(n, NilLit) >>) >>) >>) }

Names == { "a", "b" }

DeclarationTexts ==
    UNION { DeclaredTwice(n) \cup ReadInInitializer(n) \cup GlobalOrDistinct(n) : n \in Names }

ReturnTexts ==
    UNION { OutsideFunction(s) \cup InsideFunction(s) \cup InsideInitializer(s) :
            s \in ReturnStatements }

\* class A {}  fun f() {}  fun g() {}  var a = A();  var b = A();  var n = 0 / 0;
Declarations ==
    << Class("A", NoSuperclass, <<>>),
       Function("f", <<>>, <<>>),
       Function("g", <<>>, <<>>),
       Var("a", Call(Identifier("A"), <<>>)),
       Var("b", Call(Identifier("A"), <<>>)),
       Var("n", Binary(NumberLit(0), "SLASH", NumberLit(0))) >>

\* operands: values of every variant of TokenLiteral, NaN among the numbers
\* 1, 2, n
Numbers == { NumberLit(1), NumberLit(2), Identifier("n") }

\* "ab", "a" + "b", "b"
Strings == { StringLit("ab"), Binary(StringLit("a"), "PLUS", StringLit("b")), StringLit("b") }

\* nil, true, false, f, g, a, b
Operands ==
    Numbers \cup Strings
    \cup { NilLit, Literal(LOX_BOOL(TRUE)), Literal(LOX_BOOL(FALSE)),
           Identifier("f"), Identifier("g"), Identifier("a"), Identifier("b") }

\* <Declarations>  print x == y;  print y == x;  print x != y;
Equality(x, y) ==
    Text(Declarations \o << PrintStmt(Binary(x, "EQUAL_EQUAL", y)),
                            PrintStmt(Binary(y, "EQUAL_EQUAL", x)),
                            PrintStmt(Binary(x, "BANG_EQUAL", y)) >>)

\* the binary operators other than == and !=
Operators ==
    { "PLUS", "MINUS", "STAR", "SLASH", "GREATER", "GREATER_EQUAL", "LESS", "LESS_EQUAL" }

\* one operand of every variant, and NaN
\* nil, true, 1, n, "ab", f, a
OperandSample ==
    { NilLit, Literal(LOX_BOOL(TRUE)), NumberLit(1), Identifier("n"), StringLit("ab"),
      Identifier("f"), Identifier("a") }

\* <Declarations>
\* fun left() { print "left"; return x; }  fun right() { print "right"; return y; }
\* print left()
\*   op right();
Operation(x, op, y) ==
    Text(Declarations \o
         << Function("left", <<>>, << PrintStmt(StringLit("left")), Return(x) >>),
            Function("right", <<>>, << PrintStmt(StringLit("right")), Return(y) >>),
            PrintStmt(BinaryAt(Call(Identifier("left"), <<>>), op, 2,
                               Call(Identifier("right"), <<>>))) >>)

\* OperandSample and false, 0, ""
Conditions == OperandSample \cup { Literal(LOX_BOOL(FALSE)), NumberLit(0), StringLit("") }

\* <Declarations>  var x = <x>;  var y = <y>;
\* fun left() { print "left"; return x; }  fun right() { print "right"; return y; }
\* var r = left() op right();
Logic(x, op, y) ==
    Text(Declarations \o
         << Var("x", x), Var("y", y),
            Function("left", <<>>, << PrintStmt(StringLit("left")), Return(Identifier("x")) >>),
            Function("right", <<>>, << PrintStmt(StringLit("right")), Return(Identifier("y")) >>),
            Var("r", Logical(Call(Identifier("left"), <<>>), op,
                             Call(Identifier("right"), <<>>))) >>)

\* <Declarations>  var x = <x>;
\* print !!x;  if (x) print "then"; else print "else";
\* while (x) { print "body"; x = nil; }
Truth(x) ==
    Text(Declarations \o
         << Var("x", x),
            PrintStmt(Unary("BANG", Unary("BANG", Identifier("x")))),
            If(Identifier("x"), PrintStmt(StringLit("then")), PrintStmt(StringLit("else"))),
            While(Identifier("x"), Block(<< PrintStmt(StringLit("body")),
                                           Expression(AssignTo("x", NilLit)) >>)) >>)

ValueSessions ==
    { File(Equality(x, y)) : x \in Operands, y \in Operands }
    \cup { File(Logic(x, op, y)) : x \in Conditions, op \in {"AND", "OR"}, y \in Conditions }
    \cup { File(Truth(x)) : x \in Conditions }
    \cup { File(Operation(x, op, y)) : x \in OperandSample, op \in Operators,
                                        y \in OperandSample }
    \cup { Prompt(<<Equality(NilLit, NilLit), PrintOk>>) }

Sessions ==
    { File(ShadowGlobal), File(ShadowNested), File(ClosureCounter), File(ClosureShared),
      File(ClosureNested), File(ErrorInFunction), File(ErrorInMethod), File(ErrorInInit),
      File(ReturnFromLoop), File(ReturnValues), File(InitReturns), File(InitCompletes),
      File(LoopClock), File(ScanError), File(ParseError), File(InvalidTarget),
      File(TopLevelReturn), File(Redeclared), File(OwnInitializer), File(ThisOutsideClass),
      File(InitReturnsValue), File(Constructor), File(ConstructorInside),
      File(ConstructorInherited), File(ConstructorNested), File(SuperMethod),
      File(SuperMissing), File(Properties), File(PropertiesInherited), File(CallOrder),
      File(CallNotCallable), File(CallArity), File(BlockExits),
      Prompt(<<BlockExits, BlockExits>>), Prompt(<<StaleLine1, StaleLine2>>),
      File(MethodName), File(SuperEmptied), File(AssignEmpties),
      Prompt(<<DeepLine1, DeepLine2, DeepLine3, DeepLine4>>),
      Prompt(<<PrintOk, ScanError, PrintOk>>), Prompt(<<ParseError, TopLevelReturn, PrintOk>>),
      Prompt(<<ErrorInInit, ErrorInFunction, PrintOk>>),
      Prompt(<<ShadowLine1, ShadowLine2, ShadowLine3>>) }

\* tokens as Scanner::scan_tokens gives them, all on line 1
Lexemes ==
    [PRINT |-> "print", VAR |-> "var", FUN |-> "fun", SEMICOLON |-> ";", EQUAL |-> "=",
     PLUS |-> "+", LEFT_PAREN |-> "(", RIGHT_PAREN |-> ")", LEFT_BRACE |-> "{",
     RIGHT_BRACE |-> "}", COMMA |-> ",", DOT |-> ".", FOR |-> "for", LESS |-> "<",
     RETURN |-> "return", EOF |-> ""]

T(token_type) == Token(token_type, Lexemes[token_type], LOX_NULL, 1)
Number(n) == Token("NUMBER", ToString(n), LOX_NUMBER(n), 1)
Name(lexeme) == Token("IDENTIFIER", lexeme, LOX_NULL, 1)

\* declarations with a syntax error, and the message of the error:
\* print ;   1 + ;   print 1 2;   print (1;   var 1 = 2;   fun f(1) {}
\* { print ; }   print 1 + print 2;
Malformed ==
    { [tokens |-> << T("PRINT"), T("SEMICOLON") >>, message |-> "Expected expression"],
      [tokens |-> << Number(1), T("PLUS"), T("SEMICOLON") >>,
       message |-> "Expected expression"],
      [tokens |-> << T("PRINT"), Number(1), Number(2), T("SEMICOLON") >>,
       message |-> "Expect ';' after value"],
      [tokens |-> << T("PRINT"), T("LEFT_PAREN"), Number(1), T("SEMICOLON") >>,
       message |-> "Expect ')' after expression."],
      [tokens |-> << T("VAR"), Number(1), T("EQUAL"), Number(2), T("SEMICOLON") >>,
       message |-> "Expect variable name."],
      [tokens |-> << T("FUN"), Name("f"), T("LEFT_PAREN"), Number(1), T("RIGHT_PAREN"),
                     T("LEFT_BRACE"), T("RIGHT_BRACE") >>,
       message |-> "Expect parameter name."],
      [tokens |-> << T("LEFT_BRACE"), T("PRINT"), T("SEMICOLON"), T("RIGHT_BRACE") >>,
       message |-> "Expected expression"],
      [tokens |-> << T("PRINT"), Number(1), T("PLUS"), T("PRINT"), Number(2),
                     T("SEMICOLON") >>,
       message |-> "Expected expression"] }

\* declarations without one, and what they print:
\* print 3;   var x = 4; print x;   { print 5; }   fun f(a, b) { print a + b; } f(2, 4);
Wellformed ==
    { [tokens |-> << T("PRINT"), Number(3), T("SEMICOLON") >>, stdout |-> <<"3">>],
      [tokens |-> << T("VAR"), Name("x"), T("EQUAL"), Number(4), T("SEMICOLON"),
                     T("PRINT"), Name("x"), T("SEMICOLON") >>, stdout |-> <<"4">>],
      [tokens |-> << T("LEFT_BRACE"), T("PRINT"), Number(5), T("SEMICOLON"),
                     T("RIGHT_BRACE") >>, stdout |-> <<"5">>],
      [tokens |-> << T("FUN"), Name("f"), T("LEFT_PAREN"), Name("a"), T("COMMA"), Name("b"),
                     T("RIGHT_PAREN"), T("LEFT_BRACE"), T("PRINT"), Name("a"), T("PLUS"),
                     Name("b"), T("SEMICOLON"), T("RIGHT_BRACE"),
                     Name("f"), T("LEFT_PAREN"), Number(2), T("COMMA"), Number(4),
                     T("RIGHT_PAREN"), T("SEMICOLON") >>, stdout |-> <<"6">>] }

\* texts with assignments:
\* var a; var b; a = b = 1; print a;     var a; a.b = 2;     var a; (a) = 3;
\* var a = 1; var b = 2; a + b = 3;       var a; var b; a = (b) = 1; print a;
\* var a; a.b.c = a.d = 2;
Assignments ==
    { << T("VAR"), Name("a"), T("SEMICOLON"), T("VAR"), Name("b"), T("SEMICOLON"),
         Name("a"), T("EQUAL"), Name("b"), T("EQUAL"), Number(1), T("SEMICOLON"),
         T("PRINT"), Name("a"), T("SEMICOLON") >>,
      << T("VAR"), Name("a"), T("SEMICOLON"),
         Name("a"), T("DOT"), Name("b"), T("EQUAL"), Number(2), T("SEMICOLON") >>,
      << T("VAR"), Name("a"), T("SEMICOLON"),
         T("LEFT_PAREN"), Name("a"), T("RIGHT_PAREN"), T("EQUAL"), Number(3),
         T("SEMICOLON") >>,
      << T("VAR"), Name("a"), T("EQUAL"), Number(1), T("SEMICOLON"),
         T("VAR"), Name("b"), T("EQUAL"), Number(2), T("SEMICOLON"),
         Name("a"), T("PLUS"), Name("b"), T("EQUAL"), Number(3), T("SEMICOLON") >>,
      << T("VAR"), Name("a"), T("SEMICOLON"), T("VAR"), Name("b"), T("SEMICOLON"),
         Name("a"), T("EQUAL"), T("LEFT_PAREN"), Name("b"), T("RIGHT_PAREN"), T("EQUAL"),
         Number(1), T("SEMICOLON"), T("PRINT"), Name("a"), T("SEMICOLON") >>,
      << T("VAR"), Name("a"), T("SEMICOLON"),
         Name("a"), T("DOT"), Name("b"), T("DOT"), Name("c"), T("EQUAL"),
         Name("a"), T("DOT"), Name("d"), T("EQUAL"), Number(2), T("SEMICOLON") >> }

\* texts with for statements:
\* for (var i = 0; i < 2; i = i + 1) print i;
\* var i = 0; for (; i < 2; i = i + 1) { print i; }
\* var i = 0; for (i = 1; i < 2;) { print i; i = i + 1; }
\* fun f() { for (;;) { return 1; } } print f();
\* for (var i = 0; i < 2; i = i + 1) for (var j = 0; j < 1;) { print i; j = 1; }
Fors ==
    { << T("FOR"), T("LEFT_PAREN"), T("VAR"), Name("i"), T("EQUAL"), Number(0),
         T("SEMICOLON"), Name("i"), T("LESS"), Number(2), T("SEMICOLON"),
         Name("i"), T("EQUAL"), Name("i"), T("PLUS"), Number(1), T("RIGHT_PAREN"),
         T("PRINT"), Name("i"), T("SEMICOLON") >>,
      << T("VAR"), Name("i"), T("EQUAL"), Number(0), T("SEMICOLON"),
         T("FOR"), T("LEFT_PAREN"), T("SEMICOLON"),
         Name("i"), T("LESS"), Number(2), T("SEMICOLON"),
         Name("i"), T("EQUAL"), Name("i"), T("PLUS"), Number(1), T("RIGHT_PAREN"),
         T("LEFT_BRACE"), T("PRINT"), Name("i"), T("SEMICOLON"), T("RIGHT_BRACE") >>,
      << T("VAR"), Name("i"), T("EQUAL"), Number(0), T("SEMICOLON"),
         T("FOR"), T("LEFT_PAREN"), Name("i"), T("EQUAL"), Number(1), T("SEMICOLON"),
         Name("i"), T("LESS"), Number(2), T("SEMICOLON"), T("RIGHT_PAREN"),
         T("LEFT_BRACE"), T("PRINT"), Name("i"), T("SEMICOLON"),
         Name("i"), T("EQUAL"), Name("i"), T("PLUS"), Number(1), T("SEMICOLON"),
         T("RIGHT_BRACE") >>,
      << T("FUN"), Name("f"), T("LEFT_PAREN"), T("RIGHT_PAREN"), T("LEFT_BRACE"),
         T("FOR"), T("LEFT_PAREN"), T("SEMICOLON"), T("SEMICOLON"), T("RIGHT_PAREN"),
         T("LEFT_BRACE"), T("RETURN"), Number(1), T("SEMICOLON"), T("RIGHT_BRACE"),
         T("RIGHT_BRACE"),
         T("PRINT"), Name("f"), T("LEFT_PAREN"), T("RIGHT_PAREN"), T("SEMICOLON") >>,
      << T("FOR"), T("LEFT_PAREN"), T("VAR"), Name("i"), T("EQUAL"), Number(0),
         T("SEMICOLON"), Name("i"), T("LESS"), Number(2), T("SEMICOLON"),
         Name("i"), T("EQUAL"), Name("i"), T("PLUS"), Number(1), T("RIGHT_PAREN"),
         T("FOR"), T("LEFT_PAREN"), T("VAR"), Name("j"), T("EQUAL"), Number(0),
         T("SEMICOLON"), Name("j"), T("LESS"), Number(1), T("SEMICOLON"), T("RIGHT_PAREN"),
         T("LEFT_BRACE"), T("PRINT"), Name("i"), T("SEMICOLON"),
         Name("j"), T("EQUAL"), Number(1), T("SEMICOLON"), T("RIGHT_BRACE") >> }

\* the text of two declarations
Declared(first, second) == Scanned(first.tokens \o second.tokens \o << T("EOF") >>)

SyntaxSessions ==
    { File(Declared(first, second)) :
          first \in Malformed \cup Wellformed, second \in Malformed \cup Wellformed }
    \cup { Prompt(<< Declared(first, second), Declared(second, second) >>) :
               first \in Malformed, second \in Wellformed }
    \cup { File(Scanned(tokens \o << T("EOF") >>)) : tokens \in Assignments \cup Fors }

StaticSessions ==
    { File(text) : text \in ReturnTexts \cup DeclarationTexts }
    \cup { Prompt(<<TopLevelReturn, InitReturnsValue, PrintOk>>) }

\* ------------------------------------------------------------------------
\* The state machine
\* ------------------------------------------------------------------------
Lox == [HAD_ERROR |-> HAD_ERROR, HAD_RUNTIME_ERROR |-> HAD_RUNTIME_ERROR, stderr |-> stderr]

Statements == parse(session.sources[line].tree)

\* the state in which main starts one of `sessions`
Start(sessions) ==
    /\ session \in sessions
    /\ now \in 0..MaxClock
    /\ line = 1
    /\ pc = "read"
    /\ ip = 1
    /\ interp = Interpreter_new
    /\ HAD_ERROR = FALSE
    /\ HAD_RUNTIME_ERROR = FALSE
    /\ stderr = <<>>
    /\ history = <<>>
    /\ exit_code = -1

Init == Start(Sessions)

\* the system clock advances
Tick ==
    /\ pc \in {"read", "interpret"}
    /\ now < MaxClock
    /\ now' = now + 1
    /\ UNCHANGED <<session, line, pc, ip, interp, HAD_ERROR, HAD_RUNTIME_ERROR,
                   stderr, history, exit_code>>

\* run returned out: the statics and the interpreter after it
Ran(out) ==
    /\ HAD_ERROR' = out.lox.HAD_ERROR
    /\ HAD_RUNTIME_ERROR' = out.lox.HAD_RUNTIME_ERROR
    /\ stderr' = out.lox.stderr
    /\ interp' = [interp EXCEPT !.locals = out.locals]
    /\ pc' = CASE ~out.returns -> "synchronize"
               [] out.interpret /\ Statements # <<>> -> "interpret"
               [] OTHER -> "returned"
    /\ history' = Append(history, [line |-> line,
                                   reported |-> out.lox.stderr # stderr,
                                   interpret |-> out.interpret,
                                   stdout |-> interp.stdout,
                                   log |-> Len(interp.log),
                                   executed |-> <<>>])

\* run_file / run_prompt hand the next text to run, which scans, parses and
\* resolves it
RunSource ==
    /\ pc = "read"
    /\ line <= Len(session.sources)
    /\ Ran(run(Lox, interp.locals, session.sources[line]))
    /\ ip' = 1
    /\ UNCHANGED <<session, now, line, exit_code>>

\* accept_statement returned x to the loop of Interpreter::interpret
Accepted(x) ==
    /\ interp' = x.s
    /\ history' = [history EXCEPT ![Len(history)].executed = Append(@, x.r)]
    /\ CASE x.r.kind = "Ok" ->
             /\ ip' = ip + 1
             /\ pc' = IF ip = Len(Statements) THEN "returned" ELSE "interpret"
             /\ UNCHANGED <<HAD_ERROR, HAD_RUNTIME_ERROR, stderr, exit_code>>
         [] x.r.kind = "Panic" ->
             /\ pc' = "panicked"
             /\ exit_code' = 101
             /\ UNCHANGED <<ip, HAD_ERROR, HAD_RUNTIME_ERROR, stderr>>
         [] OTHER ->
             /\ pc' = "returned"
             /\ HAD_RUNTIME_ERROR' = runtime_error(Lox, x.r).HAD_RUNTIME_ERROR
             /\ stderr' = runtime_error(Lox, x.r).stderr
             /\ UNCHANGED <<ip, HAD_ERROR, exit_code>>

\* one iteration of the loop of Interpreter::interpret
InterpretStatement ==
    /\ pc = "interpret"
    /\ ip <= Len(Statements)
    /\ Accepted(accept_statement([interp EXCEPT !.now = now], Statements[ip]))
    /\ UNCHANGED <<session, now, line>>

\* run_file after run returned
FileExit ==
    /\ pc = "returned"
    /\ session.mode = "file"
    /\ pc' = "exited"
    /\ exit_code' = IF HAD_ERROR THEN 65 ELSE IF HAD_RUNTIME_ERROR THEN 70 ELSE 0
    /\ UNCHANGED <<session, now, line, ip, interp, HAD_ERROR, HAD_RUNTIME_ERROR,
                   stderr, history>>

\* run_prompt after run returned
PromptNext ==
    /\ pc = "returned"
    /\ session.mode = "prompt"
    /\ HAD_ERROR' = FALSE
    /\ line' = line + 1
    /\ pc' = "read"
    /\ UNCHANGED <<session, now, ip, interp, HAD_RUNTIME_ERROR, stderr, history, exit_code>>

\* run_prompt reads end of input
PromptEof ==
    /\ pc = "read"
    /\ session.mode = "prompt"
    /\ line > Len(session.sources)
    /\ pc' = "exited"
    /\ exit_code' = 0
    /\ UNCHANGED <<session, now, line, ip, interp, HAD_ERROR, HAD_RUNTIME_ERROR,
                   stderr, history>>

Next ==
    \/ Tick
    \/ RunSource
    \/ InterpretStatement
    \/ FileExit
    \/ PromptNext
    \/ PromptEof

Spec == Init /\ [][Next]_vars

\* the interpreter run on the programs over Operands
ValueInit == Start(ValueSessions)

ValueSpec == ValueInit /\ [][Next]_vars

\* the resolver run on the texts with returns and declarations
StaticInit == Start(StaticSessions)

StaticSpec == StaticInit /\ [][Next]_vars

\* the parser run on texts of two declarations
SyntaxInit == Start(SyntaxSessions)

SyntaxSpec == SyntaxInit /\ [][Next]_vars

\* ------------------------------------------------------------------------
\* Properties of function calls, returns and errors
\* ------------------------------------------------------------------------

\* C1: a runtime error raised by the body of a user function (plain
\* function, method or initializer) leaves LoxFunction::call as that error
C1_ErrorPropagates ==
    \A i \in DOMAIN interp.log :
        (interp.log[i].e = "exit" /\ interp.log[i].body.kind = "OperatorError")
            => interp.log[i].ret = interp.log[i].body

\* C2: the return signal of every `return` statement is raised inside a call
\* and is caught by that call: the call's block ends with the signal, the
\* call itself does not; no statement handed to interpret ends with a
\* return signal, and the runtime-error flag is set only by a runtime error
C2_ReturnCaughtByCall ==
    /\ \A i \in DOMAIN interp.log :
          interp.log[i].e = "return" =>
              /\ interp.log[i].depth >= 1
              /\ i < Len(interp.log)
              /\ interp.log[i + 1].e = "exit"
              /\ interp.log[i + 1].depth = interp.log[i].depth
              /\ interp.log[i + 1].body = ReturnSignal(interp.log[i].value)
              /\ interp.log[i + 1].ret.kind # "Return"
    /\ \A h \in DOMAIN history :
          \A k \in DOMAIN history[h].executed : history[h].executed[k].kind # "Return"
    /\ HAD_RUNTIME_ERROR =>
          \E h \in DOMAIN history :
              \E k \in DOMAIN history[h].executed :
                  history[h].executed[k].kind = "OperatorError"
    /\ Cardinality({m \in DOMAIN stderr : stderr[m].kind = "Runtime Error"}) =
          Cardinality({h \in DOMAIN history :
                          \E k \in DOMAIN history[h].executed :
                              history[h].executed[k].kind = "OperatorError"})

\* C2, a case: a return inside a loop inside a call made by another call
\* was caught, and the program ran to its end without a runtime error
C2_Witness ==
    /\ pc = "exited"
    /\ ~HAD_RUNTIME_ERROR
    /\ stderr = <<>>
    /\ \E i \in DOMAIN interp.log : interp.log[i].e = "return" /\ interp.log[i].depth = 2

C4_ReportedNotInterpreted ==
    \A h \in DOMAIN history :
        history[h].reported =>
            /\ ~history[h].interpret
            /\ history[h].executed = <<>>
            /\ IF h = Len(history)
               THEN interp.stdout = history[h].stdout
                    /\ Len(interp.log) = history[h].log
               ELSE history[h + 1].stdout = history[h].stdout
                    /\ history[h + 1].log = history[h].log

\* C4, a case: a line with a syntax error ran nothing, and the line after it
\* was interpreted and printed
C4_Witness ==
    \E h \in DOMAIN history :
        /\ history[h].reported
        /\ ~history[h].interpret
        /\ h < Len(history)
        /\ history[h + 1].interpret
        /\ pc = "exited"
        /\ Len(interp.stdout) > Len(history[h + 1].stdout)

\* ------------------------------------------------------------------------
\* Properties of variables and closures
\* ------------------------------------------------------------------------

\* C5: a variable reference in a function body reads the same declaration
\* on every call: run to the end, each of the shadowing programs, which call
\* one function twice and assign nothing in between, has printed the same
\* value twice
C5_SameBindingEveryCall ==
    (/\ pc \in {"exited", "panicked"}
     /\ session \in {File(ShadowGlobal), File(ShadowNested),
                     Prompt(<<ShadowLine1, ShadowLine2, ShadowLine3>>)})
        => /\ Len(interp.stdout) = 2
           /\ interp.stdout[1] = interp.stdout[2]

\* C6: a closure reads a captured variable when it is called and sees the
\* assignments made to it since, inside or outside the closure: run to the
\* end, the closure programs have printed the values assigned
C6_ClosuresSeeAssignments ==
    pc \in {"exited", "panicked"} =>
        /\ session = File(ClosureCounter) => interp.stdout = <<"1", "2">>
        /\ session = File(ClosureShared) => interp.stdout = <<"2", "3">>
        /\ session = File(ClosureNested) => interp.stdout = <<"1", "2">>

\* ------------------------------------------------------------------------
\* Properties of classes, instances and calls
\* ------------------------------------------------------------------------

\* C7: a call of a class with an initializer makes one new instance, calls
\* the initializer bound to it with the arguments of the call, and, when the
\* initializer's body ends without an error, evaluates to that instance
C7_ClassCallYieldsInstance ==
    \A i \in DOMAIN interp.log :
        (interp.log[i].e = "construct" /\ interp.log[i].initializer # 0) =>
            /\ interp.log[i].instance = interp.log[i].instances + 1
            /\ interp.log[i - 1].e = "exit"
            /\ interp.log[i - 1].f = interp.log[i].bound
            /\ interp.log[i - 1].body.kind \in {"Ok", "Return"}
                  => interp.log[i].r = Ok(LOX_INSTANCE(interp.log[i].instance))

\* C8: `super.m` in a method evaluates to the method m of the superclass
\* chain bound to the current `this`, or fails with "Undefined property" when
\* the chain has no m
C8_SuperYieldsMethod ==
    \A i \in DOMAIN interp.log :
        interp.log[i].e = "super" =>
            \/ /\ interp.log[i].r.kind = "Ok"
               /\ interp.log[i].r.v.k = "callable"
            \/ interp.log[i].r =
                  OperatorError("Undefined property '" \o interp.log[i].method \o "'")

\* C9: a property of an instance is its field of that name if it has one;
\* otherwise the method of that name of its class or, failing that, of the
\* nearest superclass that has one, bound anew to the instance; otherwise
\* the "Undefined property" error.  Only a method hit changes the
\* interpreter, by the new function and its frame binding `this`
C9_FieldsThenMethods ==
    \A i \in DOMAIN interp.log :
        interp.log[i].e = "get" =>
            LET ev == interp.log[i]
                before == ev.before
                after == ev.after
                instance == before.instances[ev.instance]
                class == before.classes[instance.class]
                method == IF ev.name \in DOMAIN class.methods
                          THEN class.methods[ev.name]
                          ELSE IF class.superclass # 0
                               THEN find_method(before.classes, class.superclass, ev.name)
                               ELSE 0
            IN  CASE ev.name \in DOMAIN instance.fields ->
                        /\ ev.r = Ok(instance.fields[ev.name])
                        /\ after = before
                  [] method # 0 ->
                        /\ ev.r = Ok(LOX_CALLABLE(Len(before.callables) + 1))
                        /\ after.callables = Append(before.callables,
                               [kind |-> "UserFunction", ref |-> Len(before.functions) + 1])
                        /\ after.functions = Append(before.functions,
                               [declaration |-> before.functions[method].declaration,
                                closure |-> Len(before.envs) + 1,
                                is_initializer |-> before.functions[method].is_initializer])
                        /\ after.envs = Append(before.envs,
                               [values |-> ("this" :> LOX_INSTANCE(ev.instance)),
                                enclosing |-> before.functions[method].closure])
                        /\ after.instances = before.instances
                        /\ after.classes = before.classes
                        /\ after.stdout = before.stdout
                  [] OTHER ->
                        /\ ev.r = OperatorError("Undefined property '" \o ev.name \o "'")
                        /\ after = before

\* C9, a case: a field was read that has the name of a method of the class,
\* an inherited method was bound, and an unknown property was asked for
C9_Witness ==
    /\ \E i \in DOMAIN interp.log :
          /\ interp.log[i].e = "get"
          /\ interp.log[i].name \in
                DOMAIN interp.log[i].before.instances[interp.log[i].instance].fields
          /\ find_method(interp.log[i].before.classes,
                         interp.log[i].before.instances[interp.log[i].instance].class,
                         interp.log[i].name) # 0
    /\ \E i \in DOMAIN interp.log :
          /\ interp.log[i].e = "get"
          /\ interp.log[i].r.kind = "OperatorError"

\* C9, another case: a method that only the superclass has was bound
C9_WitnessInherited ==
    \E i \in DOMAIN interp.log :
        /\ interp.log[i].e = "get"
        /\ interp.log[i].r.kind = "Ok"
        /\ interp.log[i].r.v.k = "callable"
        /\ interp.log[i].name \notin
              DOMAIN interp.log[i].before.classes[
                  interp.log[i].before.instances[interp.log[i].instance].class].methods

\* C10: a call first evaluates the callee, then the arguments from left to
\* right; a callee that is no callable, or one whose arity is not the number
\* of arguments, makes the call a runtime error that enters no function and
\* leaves environments, instances, functions and stdout as they were after
\* the arguments
C10_CallChecked ==
    /\ \A i \in DOMAIN interp.log :
          interp.log[i].e = "call_expr" =>
              CASE interp.log[i].callee.k # "callable" ->
                      /\ interp.log[i].r =
                            OperatorError("Can only call functions and class instances")
                      /\ interp.log[i].untouched
                      /\ ~interp.log[i].entered
                [] interp.log[i].arity # interp.log[i].nargs ->
                      /\ interp.log[i].r =
                            OperatorError("Expected " \o ToString(interp.log[i].arity)
                                          \o " arguments but got "
                                          \o ToString(interp.log[i].nargs) \o ".")
                      /\ interp.log[i].untouched
                      /\ ~interp.log[i].entered
                [] OTHER -> TRUE
    /\ pc = "exited" =>
          /\ session = File(CallOrder) => interp.stdout = <<"0", "1", "2">>
          /\ session = File(CallNotCallable) => interp.stdout = <<"0", "1">>
          /\ session = File(CallArity) => interp.stdout = <<"3", "6">>

\* C10, a case: a call with too many arguments and a call of a number were
\* refused after their arguments had been evaluated and had printed
C10_Witness ==
    /\ pc = "exited"
    /\ session \in {File(CallOrder), File(CallNotCallable)}
    /\ HAD_RUNTIME_ERROR
    /\ \E i \in DOMAIN interp.log :
          /\ interp.log[i].e = "call_expr"
          /\ interp.log[i].r.kind = "OperatorError"
          /\ interp.log[i].nargs > 0
          /\ (interp.log[i].callee.k # "callable"
              \/ interp.log[i].arity # interp.log[i].nargs)

\* ------------------------------------------------------------------------
\* Properties of values and operators
\* ------------------------------------------------------------------------

\* the operands x and y of a finished run of Equality(x, y), and what it printed
EqualityFinished ==
    /\ pc = "exited"
    /\ session.mode = "file"
    /\ Len(session.sources[1].tree) = Len(Declarations) + 3
    /\ session.sources[1].tree[Len(Declarations) + 1].t = "Print"

EqualityLeft == session.sources[1].tree[Len(Declarations) + 1].expression.left

EqualityRight == session.sources[1].tree[Len(Declarations) + 1].expression.right

\* C11: == is reflexive on every value: a run of `print x == x;` prints true,
\* for an operand x of any variant
C11_EqualityReflexive ==
    (EqualityFinished /\ EqualityLeft = EqualityRight) => interp.stdout[1] = "true"

\* the rest of C11: == and != raise no error, x == y and y == x agree, and
\* x != y is the negation of x == y
EqualitySymmetricNegated ==
    EqualityFinished =>
        /\ ~HAD_RUNTIME_ERROR
        /\ Len(interp.stdout) = 3
        /\ interp.stdout[2] = interp.stdout[1]
        /\ interp.stdout[3] = (IF interp.stdout[1] = "true" THEN "false" ELSE "true")

\* the operands x and y and the operator of a finished run of Operation(x, op, y)
OperationFinished ==
    /\ pc = "exited"
    /\ session.mode = "file"
    /\ Len(session.sources[1].tree) = Len(Declarations) + 3
    /\ session.sources[1].tree[Len(Declarations) + 1].t = "Function"

OperationLeft == session.sources[1].tree[Len(Declarations) + 1].body[2].value

OperationRight == session.sources[1].tree[Len(Declarations) + 2].body[2].value

OperationToken == session.sources[1].tree[Len(Declarations) + 3].expression

OperationAllowed ==
    \/ OperationLeft \in Numbers /\ OperationRight \in Numbers
    \/ OperationToken.operator = "PLUS" /\ OperationLeft \in Strings /\ OperationRight \in Strings

\* C12: a binary operator other than == and != evaluates its left operand,
\* then its right operand, and then raises a runtime error, carrying the line
\* of the operator, unless both operands are numbers or the operator is + and
\* both are strings; in those cases it raises none
C12_OperatorErrors ==
    OperationFinished =>
        /\ Len(interp.stdout) >= 2
        /\ interp.stdout[1] = "left"
        /\ interp.stdout[2] = "right"
        /\ IF OperationAllowed
           THEN stderr = <<>> /\ ~HAD_RUNTIME_ERROR /\ Len(interp.stdout) = 3
           ELSE /\ HAD_RUNTIME_ERROR
                /\ Len(interp.stdout) = 2
                /\ Len(stderr) = 1
                /\ stderr[1].kind = "Runtime Error"
                /\ stderr[1].line = OperationToken.line

\* `"ab" - "ab"` on line 2 was refused after both operands were evaluated
C12_Witness ==
    /\ OperationFinished
    /\ OperationToken.operator = "MINUS"
    /\ OperationLeft \in Strings
    /\ OperationRight \in Strings
    /\ interp.stdout = <<"left", "right">>
    /\ stderr[1].line = 2

\* a finished run of Logic(x, op, y): the globals x, y and r
LogicFinished ==
    /\ pc = "exited"
    /\ session.mode = "file"
    /\ Len(session.sources[1].tree) = Len(Declarations) + 5

Global(name) == interp.envs[GlobalEnv].values[name]

LogicOperator == session.sources[1].tree[Len(Declarations) + 5].initializer.operator

LogicShortCircuits ==
    \/ LogicOperator = "OR" /\ is_truthy(Global("x"))
    \/ LogicOperator = "AND" /\ ~is_truthy(Global("x"))

\* C13: `left() or right()` with a truthy left value and `left() and right()`
\* with a falsy one evaluate left only and give its value unchanged; otherwise
\* left is evaluated, then right, and the result is the value of right
C13_ShortCircuit ==
    LogicFinished =>
        /\ ~HAD_RUNTIME_ERROR
        /\ IF LogicShortCircuits
           THEN interp.stdout = <<"left">> /\ Global("r") = Global("x")
           ELSE interp.stdout = <<"left", "right">> /\ Global("r") = Global("y")

\* `0 or right()` gave the number 0 and did not call right
C13_Witness ==
    /\ LogicFinished
    /\ LogicOperator = "OR"
    /\ Global("x") = LOX_NUMBER(0)
    /\ Global("y") = LOX_NULL
    /\ Global("r") = LOX_NUMBER(0)
    /\ interp.stdout = <<"left">>

\* a finished run of Truth(x), and the operand x
TruthFinished ==
    /\ pc = "exited"
    /\ session.mode = "file"
    /\ Len(session.sources[1].tree) = Len(Declarations) + 4

TruthOperand == session.sources[1].tree[Len(Declarations) + 1].initializer

\* nil and false
Falsy == { NilLit, Literal(LOX_BOOL(FALSE)) }

\* C14: for nil and false `!!x` is false, `if (x)` takes the else branch and
\* `while (x)` does not run its body; for every other value, 0, "", NaN,
\* callables and instances among them, `!!x` is true, `if (x)` takes the then
\* branch and `while (x)` runs its body
C14_Truthiness ==
    TruthFinished =>
        /\ ~HAD_RUNTIME_ERROR
        /\ interp.stdout = IF TruthOperand \in Falsy
                           THEN <<"false", "else">>
                           ELSE <<"true", "then", "body">>

\* 0 and "" counted as true
C14_Witness ==
    /\ TruthFinished
    /\ TruthOperand \in { NumberLit(0), StringLit("") }
    /\ interp.stdout = <<"true", "then", "body">>

\* ------------------------------------------------------------------------
\* Properties of the resolver
\* ------------------------------------------------------------------------

\* run has resolved the text of a file
Resolved == session.mode = "file" /\ history # <<>>

\* the messages reported so far
Reported == [m \in DOMAIN stderr |-> stderr[m].msg]

IsReturnValue(s) == s.value # NilLit

\* C15: a return outside every function is reported as "Can't return from
\* top-level code.", also after a function declaration; a return of a value
\* that is not the literal nil is reported as "Can't return a value from an
\* initializer" when its innermost function is a method named init; returns
\* in other functions, in functions nested in init, and `return;` in init are
\* not reported
C15_ReturnsReported ==
    \A s \in ReturnStatements :
        /\ (Resolved /\ session.sources[1] \in OutsideFunction(s)) =>
               Reported = <<"Can't return from top-level code.">>
        /\ (Resolved /\ session.sources[1] \in InsideFunction(s)) => Reported = <<>>
        /\ (Resolved /\ session.sources[1] \in InsideInitializer(s)) =>
               Reported = IF IsReturnValue(s)
                          THEN <<"Can't return a value from an initializer">>
                          ELSE <<>>

\* `class A { init() { fun g() { return 1; } return 1; } }` was reported: the
\* return in g was not, the return after it was
C15_Witness ==
    /\ Resolved
    /\ session.sources[1] \in InsideInitializer(Return(NumberLit(1)))
    /\ Len(session.sources[1].tree[1].methods[1].body) = 2
    /\ Reported = <<"Can't return a value from an initializer">>

\* `fun f() { return 1; } return 1;` was reported
C15_WitnessAfterFunction ==
    /\ Resolved
    /\ session.sources[1].tree = << Function("f", <<>>, << Return(NumberLit(1)) >>),
                                    Return(NumberLit(1)) >>
    /\ Reported = <<"Can't return from top-level code.">>

\* C16: a name declared twice in one local scope is reported as "Already a
\* variable with this name in this scope.", a local read in its own
\* initializer as "Can't read local variable in its own initializer."; at
\* global scope, and for declarations in distinct scopes, nothing is reported
C16_DeclarationsReported ==
    \A n \in Names :
        /\ (Resolved /\ session.sources[1] \in DeclaredTwice(n)) =>
               Reported = <<"Already a variable with this name in this scope.">>
        /\ (Resolved /\ session.sources[1] \in ReadInInitializer(n)) =>
               Reported = <<"Can't read local variable in its own initializer.">>
        /\ (Resolved /\ session.sources[1] \in GlobalOrDistinct(n)) =>
               Reported = <<>> /\ ~HAD_ERROR

\* `{ var a = 1; { var a = a + 1; } }` was reported
C16_Witness ==
    /\ Resolved
    /\ session.sources[1].tree =
           << Block(<< Var("a", NumberLit(1)),
                       Block(<< Var("a", Binary(Identifier("a"), "PLUS", NumberLit(1))) >>) >>) >>
    /\ Reported = <<"Can't read local variable in its own initializer.">>

\* `var a = 1; var a = 2;` was run to its end
C16_WitnessGlobal ==
    /\ Resolved
    /\ session.sources[1].tree = << Var("a", NumberLit(1)), Var("a", NumberLit(2)) >>
    /\ pc = "exited"
    /\ exit_code = 0

\* ------------------------------------------------------------------------
\* Properties of the parser
\* ------------------------------------------------------------------------

\* run was called on the text of the declarations first and second, a file
RanOn(first, second) ==
    /\ session.mode = "file"
    /\ history # <<>>
    /\ session.sources[1].tokens = first.tokens \o second.tokens \o << T("EOF") >>

\* C17: when two declarations in a row have a syntax error, the parser
\* reports the first, recovers, goes on to the second and reports it too
C17_LaterErrorReported ==
    \A first \in Malformed, second \in Malformed :
        RanOn(first, second) =>
            pc # "synchronize" /\ Reported = << first.message, second.message >>

\* what the parser does: it reports the first error only, and then either
\* returns Err from parse, no later declaration parsed, or stays in synchronize
ParseStopsAtFirstError ==
    \A first \in Malformed, second \in Malformed \cup Wellformed :
        RanOn(first, second) =>
            /\ Reported = << first.message >>
            /\ interp = Interpreter_new
            /\ pc \in {"synchronize", "returned", "exited"}

\* texts without a syntax error are parsed and run
WellformedRun ==
    \A first \in Wellformed, second \in Wellformed :
        (RanOn(first, second) /\ pc = "exited") =>
            /\ interp.stdout = first.stdout \o second.stdout
            /\ exit_code = 0
            /\ parse(session.sources[1].tree) = session.sources[1].tree

\* ------------------------------------------------------------------------
\* Properties of the REPL
\* ------------------------------------------------------------------------

\* C18: in the REPL a line with an error does not end the session: run
\* returns to run_prompt, which reads the next line
C18_ErrorLineReturns ==
    (session.mode = "prompt" /\ history # <<>> /\ stderr # <<>>) =>
        pc \in {"returned", "read", "interpret", "exited"}

\* the lines whose error lets run return: every line of the session is run,
\* an error-free line after a line with an error is executed, and it sees
\* the globals of the lines before it
PromptContinues ==
    (session.mode = "prompt" /\ pc = "exited") =>
        /\ Len(history) = Len(session.sources)
        /\ exit_code = 0

\* ------------------------------------------------------------------------
\* Properties of blocks and frames
\* ------------------------------------------------------------------------

\* the calls of execute_block that have returned, in the order of return
Blocks == { i \in DOMAIN interp.frames : interp.frames[i].e = "execute_block" }

\* C19: when execute_block returns, with Ok, with a runtime error or with a
\* return signal, the current frame is the frame that was current when it
\* was entered; between the statements of a program it is the global frame
C19_FrameRestored ==
    /\ \A i \in Blocks : interp.frames[i].curr_env = interp.frames[i].previous
    /\ pc \in {"interpret", "returned", "read", "exited"} => interp.curr_env = GlobalEnv

\* C19, a case: two nested blocks were left at once by a return signal and,
\* later, two by a runtime error, after blocks that ended normally
C19_Witness ==
    /\ \E i \in Blocks :
          /\ i + 1 \in Blocks
          /\ interp.frames[i].r.kind = "Return"
          /\ interp.frames[i + 1].r = interp.frames[i].r
          /\ interp.frames[i + 1].environment = interp.frames[i].previous
          /\ interp.frames[i].environment # interp.frames[i].previous
    /\ \E i \in Blocks :
          /\ i + 1 \in Blocks
          /\ interp.frames[i].r.kind = "OperatorError"
          /\ interp.frames[i + 1].r = interp.frames[i].r
          /\ interp.frames[i + 1].environment = interp.frames[i].previous
    /\ \E i \in Blocks : interp.frames[i].r = Ok(LOX_NULL)

\* the frame `distance` enclosing links out of frame e, 0 when the chain is
\* shorter
RECURSIVE Frame(_, _, _)
Frame(envs, e, distance) ==
    IF e = 0 \/ distance = 0 THEN e ELSE Frame(envs, envs[e].enclosing, distance - 1)

GetAts == { i \in DOMAIN interp.frames : interp.frames[i].e = "get_at" /\ interp.frames[i].r # Panic }
AssignAts ==
    { i \in DOMAIN interp.frames : interp.frames[i].e = "assign_at" /\ interp.frames[i].r # Panic }

\* the frame a logged get_at or assign_at is aimed at
Target(ev) == Frame(ev.envs, ev.env, ev.distance)

\* C20: get_at and assign_at read and write the name in the frame `distance`
\* links out of the receiving frame and in no other: they fail when that
\* frame does not bind the name
C20_ExactFrame ==
    /\ \A i \in GetAts :
          LET ev == interp.frames[i]
          IN  /\ Target(ev) # 0
              /\ IF ev.name \in DOMAIN ev.envs[Target(ev)].values
                 THEN ev.r = Ok(ev.envs[Target(ev)].values[ev.name])
                 ELSE ev.r.kind = "OperatorError"
    /\ \A i \in AssignAts :
          LET ev == interp.frames[i]
          IN  /\ Target(ev) # 0
              /\ IF ev.name \in DOMAIN ev.envs[Target(ev)].values
                 THEN ev.r.kind = "Ok" /\ ev.after[Target(ev)].values[ev.name] = ev.value
                 ELSE ev.r.kind = "OperatorError" /\ ev.after = ev.envs

\* what holds of the frame aimed at when it binds the name: the value read
\* is its binding and the value written becomes its binding
ExactFrameWhenBound ==
    /\ \A i \in GetAts :
          LET ev == interp.frames[i]
          IN  (Target(ev) # 0 /\ ev.name \in DOMAIN ev.envs[Target(ev)].values) =>
                  ev.r = Ok(ev.envs[Target(ev)].values[ev.name])
    /\ \A i \in AssignAts :
          LET ev == interp.frames[i]
          IN  (Target(ev) # 0 /\ ev.name \in DOMAIN ev.envs[Target(ev)].values) =>
                  ev.r.kind = "Ok" /\ ev.after[Target(ev)].values[ev.name] = ev.value

\* a get_at and an assign_at that found the name further out than the frame
\* they were aimed at
FellThrough ==
    /\ \E i \in GetAts :
          /\ interp.frames[i].name \notin DOMAIN interp.frames[i].envs[Target(interp.frames[i])].values
          /\ interp.frames[i].r.kind = "Ok"
    /\ \E i \in AssignAts :
          /\ interp.frames[i].name \notin DOMAIN interp.frames[i].envs[Target(interp.frames[i])].values
          /\ interp.frames[i].r.kind = "Ok"
          /\ interp.frames[i].after # interp.frames[i].envs

\* the session of StaleLine1 and StaleLine2 prints 1, then 1 and 2: the
\* second line reads and writes the global b through the frame of its block
StaleLinesPrint ==
    (session = Prompt(<<StaleLine1, StaleLine2>>) /\ pc = "exited") =>
        /\ interp.stdout = <<"1", "1", "2">>
        /\ stderr = <<>>

\* ------------------------------------------------------------------------
\* Properties of resolution
\* ------------------------------------------------------------------------

\* Lexical scoping, stated on the tree.  `scopes` is the sequence of the
\* sets of names declared so far in the non-global scopes that enclose a
\* place of the text, the innermost last.
RefName(expr) ==
    CASE expr.t = "This" -> "this"
      [] expr.t = "Super" -> "super"
      [] OTHER -> expr.name

\* the number of scopes between the innermost scope and the nearest one that
\* declares the name; -1 when no scope declares it
Hops(scopes, name) ==
    IF \A i \in DOMAIN scopes : name \notin scopes[i]
    THEN -1
    ELSE Len(scopes) - (CHOOSE i \in DOMAIN scopes :
                            /\ name \in scopes[i]
                            /\ \A j \in DOMAIN scopes : name \in scopes[j] => j <= i)

Declare(scopes, name) ==
    IF scopes = <<>> THEN scopes ELSE [scopes EXCEPT ![Len(scopes)] = @ \cup {name}]

\* the scopes after a statement: what it declares in the innermost scope
ScopesAfter(stmt, scopes) ==
    IF stmt.t \in {"Var", "Function", "Class"} THEN Declare(scopes, stmt.name) ELSE scopes

Range(seq) == { seq[i] : i \in DOMAIN seq }

\* the expressions with an id in an expression, each with the hops to the
\* scope of its name
RECURSIVE ExprRefs(_, _)
ExprRefs(expr, scopes) ==
    CASE expr.t \in {"Variable", "This", "Super"} ->
            {[id |-> expr.id, name |-> RefName(expr), hops |-> Hops(scopes, RefName(expr))]}
      [] expr.t = "Assign" ->
            {[id |-> expr.id, name |-> expr.name, hops |-> Hops(scopes, expr.name)]}
                \cup ExprRefs(expr.value, scopes)
      [] expr.t \in {"Binary", "Logical"} ->
            UNION { ExprRefs(e, scopes) : e \in {expr.left, expr.right} }
      [] expr.t = "Call" ->
            UNION { ExprRefs(e, scopes) : e \in {expr.callee} \cup Range(expr.arguments) }
      [] expr.t = "Get" -> ExprRefs(expr.object, scopes)
      [] expr.t = "Set" -> UNION { ExprRefs(e, scopes) : e \in {expr.object, expr.value} }
      [] expr.t = "Grouping" -> ExprRefs(expr.expression, scopes)
      [] expr.t = "Unary" -> ExprRefs(expr.right, scopes)
      [] OTHER -> {}

\* the same for the statements from statement i on
RECURSIVE StmtRefs(_, _, _)
StmtRefs(statements, i, scopes) ==
    IF i > Len(statements)
    THEN {}
    ELSE Let(statements[i], LAMBDA stmt:
         Let(ScopesAfter(stmt, scopes), LAMBDA declared:
         UNION {
           CASE stmt.t = "Block" -> StmtRefs(stmt.statements, 1, Append(scopes, {}))
             [] stmt.t = "Var" -> ExprRefs(stmt.initializer, declared)
             [] stmt.t = "Function" ->
                   StmtRefs(stmt.body, 1, Append(declared, Range(stmt.params)))
             [] stmt.t = "Class" ->
                   IF stmt.superclass = NoSuperclass
                   THEN StmtRefs(stmt.methods, 1, Append(declared, {"this"}))
                   ELSE ExprRefs(stmt.superclass, declared) \cup
                        StmtRefs(stmt.methods, 1, declared \o << {"super"}, {"this"} >>)
             [] stmt.t \in {"Expression", "Print"} -> ExprRefs(stmt.expression, scopes)
             [] stmt.t = "Return" -> ExprRefs(stmt.value, scopes)
             [] stmt.t = "If" ->
                   ExprRefs(stmt.expression, scopes) \cup
                   StmtRefs(<< stmt.then_branch, stmt.else_branch >>, 1, scopes)
             [] stmt.t = "While" ->
                   ExprRefs(stmt.expression, scopes) \cup StmtRefs(<< stmt.body >>, 1, scopes),
           StmtRefs(statements, i + 1, declared) }))

\* a text has been parsed and resolved, and nothing was reported
Walked ==
    /\ pc \in {"interpret", "returned"}
    /\ history # <<>>
    /\ history[Len(history)].line = line
    /\ history[Len(history)].interpret

LocalsAgree(refs) ==
    \A ref \in refs :
        /\ ref.id \in DOMAIN interp.locals <=> ref.hops >= 0
        /\ ref.id \in DOMAIN interp.locals => interp.locals[ref.id] = ref.hops

\* C21: after the resolver walked a text, locals has a key for the id of an
\* expression exactly when a non-global scope around the expression
\* declares its name, and the value is the number of scopes out to the
\* nearest such scope
C21_LocalsAreScopes == Walked => LocalsAgree(StmtRefs(Statements, 1, <<>>))

\* the same of the first text an interpreter is given
FirstLocalsAreScopes == (Walked /\ line = 1) => LocalsAgree(StmtRefs(Statements, 1, <<>>))

\* a first text in which names were found 0 and 2 scopes out and in no scope
ScopesWalked ==
    /\ Walked
    /\ line = 1
    /\ \A h \in {-1, 0, 2} : \E ref \in StmtRefs(Statements, 1, <<>>) : ref.hops = h

\* the lookups made with a recorded distance, those that ended in a panic too
Lookups == { i \in DOMAIN interp.frames : interp.frames[i].e \in {"get_at", "assign_at"} }

\* C22: whenever an expression with a recorded distance d is evaluated, the
\* current frame has d enclosing links and the frame d links out binds the
\* name of the expression
C22_DistanceFindsName ==
    \A i \in Lookups :
        /\ Target(interp.frames[i]) # 0
        /\ interp.frames[i].name \in
              DOMAIN interp.frames[i].envs[Target(interp.frames[i])].values

\* in File(MethodName) the name of the method was looked up one frame out of
\* the frame of the call, in the frame that binds `this` alone, and found in
\* the global frame
MethodNameLookedUp ==
    /\ session = File(MethodName)
    /\ pc = "exited"
    /\ \E i \in Lookups :
          /\ interp.frames[i].name = "m"
          /\ interp.frames[i].distance = 1
          /\ DOMAIN interp.frames[i].envs[Target(interp.frames[i])].values = {"this"}
          /\ interp.frames[i].r.kind = "Ok"
    /\ stderr = <<>>

\* the expressions with an id in the bodies of the functions a text declares
\* at top level: they can be evaluated for as long as the interpreter lives
CallableRefs(tree) ==
    UNION { StmtRefs(stmt.body, 1, << Range(stmt.params) >>) :
                stmt \in { s \in Range(tree) : s.t = "Function" } }

Ids(refs) == { ref.id : ref \in refs }

\* the lines of the session run before the current one whose statements
\* were handed to the interpreter
EarlierLines == { l \in 1..(line - 1) : l \in DOMAIN history /\ history[l].interpret }

\* C23: the expressions of a function declared by an earlier line have ids
\* no expression of the current line has, and locals still holds for them
\* what the resolver found when it walked their line
C23_IdsDistinctAcrossLines ==
    Walked =>
        \A l \in EarlierLines :
            \A ref \in CallableRefs(parse(session.sources[l].tree)) :
                /\ ref.id \notin Ids(StmtRefs(Statements, 1, <<>>))
                /\ ref.id \in DOMAIN interp.locals <=> ref.hops >= 0
                /\ ref.id \in DOMAIN interp.locals => interp.locals[ref.id] = ref.hops

\* within one text no two names share an id
IdsDistinctInText ==
    Walked =>
        \A r1 \in StmtRefs(Statements, 1, <<>>), r2 \in StmtRefs(Statements, 1, <<>>) :
            r1.id = r2.id => r1.name = r2.name

\* the distance of `a` in h, declared by the first line, was overwritten by
\* the second line
DistanceOverwritten ==
    /\ session = Prompt(<<ShadowLine1, ShadowLine2, ShadowLine3>>)
    /\ Walked
    /\ line = 2
    /\ \E ref \in CallableRefs(parse(ShadowLine1.tree)) :
          ref.hops >= 0 /\ interp.locals[ref.id] # ref.hops

\* the session prints `local` on its first line and `global` on its third,
\* where the same call of f is made again
ShadowLinesPrint ==
    /\ session = Prompt(<<ShadowLine1, ShadowLine2, ShadowLine3>>)
    /\ pc = "exited"
    /\ interp.stdout = <<"local", "global">>

\* ------------------------------------------------------------------------
\* Properties of the chain of frames
\* ------------------------------------------------------------------------

\* whether following the enclosing links from frame e ends at the global
\* frame; frames are numbered in the order of their creation
RECURSIVE EndsAtGlobal(_, _)
EndsAtGlobal(envs, e) ==
    CASE e = GlobalEnv -> TRUE
      [] e = 0 -> FALSE
      [] OTHER -> envs[e].enclosing < e /\ EndsAtGlobal(envs, envs[e].enclosing)

GlobalHasNoEnclosing == interp.envs[GlobalEnv].enclosing = 0

\* C24: the global frame has no enclosing frame, every other frame has one,
\* and the links from every frame lead to the global frame
C24_FramesChained ==
    /\ GlobalHasNoEnclosing
    /\ \A e \in DOMAIN interp.envs \ {GlobalEnv} :
          /\ interp.envs[e].enclosing # 0
          /\ EndsAtGlobal(interp.envs, e)

\* a frame that was walked through has lost its bindings and its link
FrameEmptied ==
    \E e \in DOMAIN interp.envs \ {GlobalEnv} : interp.envs[e] = DefaultEnvironment

\* ------------------------------------------------------------------------
\* Properties of the frames of classes
\* ------------------------------------------------------------------------

ClassStatements ==
    { i \in DOMAIN interp.frames :
        interp.frames[i].e = "visit_class_stmt" /\ interp.frames[i].r.kind = "Ok" }

\* the frames the methods of class c close over
Closures(c) ==
    { interp.functions[interp.classes[c].methods[n]].closure :
        n \in DOMAIN interp.classes[c].methods }

\* frame e of envs binds `super` to an instance of class c
BindsSuper(envs, e, c) ==
    /\ "super" \in DOMAIN envs[e].values
    /\ envs[e].values["super"].k = "instance"
    /\ interp.instances[envs[e].values["super"].i].class = c

\* when a Class statement has finished the current frame is the frame of
\* the declaration again; the methods of a class with a superclass close
\* over a new frame inside it that binds `super`, those of a class without
\* one close over the frame of the declaration
ClassFramesMade ==
    \A i \in ClassStatements :
        LET ev == interp.frames[i]
            super == interp.classes[ev.class].superclass
        IN  /\ ev.curr_env = ev.previous
            /\ \A closure \in Closures(ev.class) :
                  IF super = 0
                  THEN closure = ev.previous
                  ELSE /\ closure # ev.previous
                       /\ ev.envs[closure].enclosing = ev.previous
                       /\ BindsSuper(ev.envs, closure, super)

SuperLookups ==
    { i \in DOMAIN interp.frames :
        interp.frames[i].e = "get_at" /\ interp.frames[i].name = "super" }

\* when `super` is evaluated at distance d the frame d - 1 links out binds
\* `this` and its enclosing frame, d links out, binds `super`
SuperOutsideThis ==
    \A i \in SuperLookups :
        LET ev == interp.frames[i]
            this == Frame(ev.envs, ev.env, ev.distance - 1)
        IN  /\ this # 0
            /\ "this" \in DOMAIN ev.envs[this].values
            /\ ev.envs[this].enclosing # 0
            /\ ev.envs[this].enclosing = Target(ev)
            /\ "super" \in DOMAIN ev.envs[Target(ev)].values

\* C25: the methods of a class with a superclass close over a frame that
\* binds `super` to the superclass, which is one link out of the frame that
\* binds `this` when a method runs; a finished Class statement leaves the
\* current frame as it found it, and without a superclass no frame is made
C25_SuperFrame ==
    /\ ClassFramesMade
    /\ SuperOutsideThis
    /\ \A c \in DOMAIN interp.classes :
          interp.classes[c].superclass # 0 =>
              \A closure \in Closures(c) :
                  BindsSuper(interp.envs, closure, interp.classes[c].superclass)

\* in File(SuperEmptied) the frame that binds `super` for the methods of B
\* was emptied by the lookup of `v`, and `super` was then not found
SuperFrameEmptied ==
    /\ session = File(SuperEmptied)
    /\ pc = "exited"
    /\ interp.stdout = <<"v">>
    /\ \E c \in DOMAIN interp.classes :
          /\ interp.classes[c].superclass # 0
          /\ \E closure \in Closures(c) : interp.envs[closure] = DefaultEnvironment
    /\ \E m \in DOMAIN stderr :
          stderr[m].kind = "Runtime Error" /\ stderr[m].msg = "Undefined variable 'super'"

\* ------------------------------------------------------------------------
\* Properties of the parser
\* ------------------------------------------------------------------------

\* what the parser of the text that was run last logged
Parsed ==
    IF history # <<>> /\ "log" \in DOMAIN session.sources[history[Len(history)].line]
    THEN session.sources[history[Len(history)].line]
    ELSE [log |-> <<>>, parse_reports |-> <<>>, parse_is_err |-> FALSE,
          parse_diverges |-> FALSE, tree |-> <<>>]

AssignmentsParsed == { i \in DOMAIN Parsed.log : Parsed.log[i].e = "assignment" }

ChainParsed ==
    /\ pc = "exited"
    /\ interp.stdout = <<"1">>
    /\ \E j \in AssignmentsParsed :
          Parsed.log[j].target.t = "Variable" /\ Parsed.log[j].value.t = "Assign"

PropertyChainParsed ==
    /\ pc = "exited"
    /\ \E j \in AssignmentsParsed :
          /\ Parsed.log[j].target.t = "Get"
          /\ Parsed.log[j].target.object.t = "Get"
          /\ Parsed.log[j].value.t = "Set"

ForsParsed == { i \in DOMAIN Parsed.log : Parsed.log[i].e = "for_statement" }

\* the statements of the block that is the body of the loop
Spliced(ev) ==
    (IF ev.body.t = "Block" THEN ev.body.statements ELSE << ev.body >>)
        \o (IF ev.increment.had THEN << Expression(ev.increment.expr) >> ELSE <<>>)

\* C27 as stated: every for statement becomes a Block of the initializer, if
\* there is one, and the While
C27_ForIsBlock ==
    \A i \in ForsParsed :
        LET ev == Parsed.log[i]
        IN  ev.node = Block((IF ev.initializer.had THEN << ev.initializer.stmt >> ELSE <<>>)
                            \o << While(ev.condition, Block(Spliced(ev))) >>)

\* C27: a for statement with an initializer becomes a Block of the
\* initializer and a While, one without becomes the While alone; the
\* condition of the While is the one given, or true, and its body a Block of
\* the statements of the body, or of the body if it is no block, and then of
\* the increment, if there is one
C27_ForLowered ==
    \A i \in ForsParsed :
        LET ev == Parsed.log[i]
        IN  /\ ev.omitted => ev.condition = Literal(LOX_BOOL(TRUE))
            /\ ev.node = IF ev.initializer.had
                         THEN Block(<< ev.initializer.stmt,
                                       While(ev.condition, Block(Spliced(ev))) >>)
                         ELSE While(ev.condition, Block(Spliced(ev)))

\* C27, a case: a for statement without initializer and with a block as its
\* body was parsed to a While and run
C27_Witness ==
    /\ pc = "exited"
    /\ interp.stdout = <<"0", "1">>
    /\ \E i \in ForsParsed :
          /\ ~Parsed.log[i].initializer.had
          /\ Parsed.log[i].increment.had
          /\ Parsed.log[i].body.t = "Block"
          /\ Parsed.log[i].node.t = "While"
          /\ Len(Parsed.log[i].node.body.statements) = 2

\* other cases: a for statement with all three clauses and a body that is
\* no block, and one with no clause
ForWithClauses ==
    /\ pc = "exited"
    /\ interp.stdout = <<"0", "1">>
    /\ \E i \in ForsParsed :
          /\ Parsed.log[i].initializer.had
          /\ Parsed.log[i].increment.had
          /\ Parsed.log[i].body.t = "Print"
          /\ Parsed.log[i].node.t = "Block"

ForWithoutClauses ==
    /\ pc = "exited"
    /\ interp.stdout = <<"1">>
    /\ \E i \in ForsParsed :
          /\ ~Parsed.log[i].initializer.had
          /\ ~Parsed.log[i].increment.had
          /\ Parsed.log[i].omitted
          /\ Parsed.log[i].node.t = "While"

\* C28: synchronize returns on every text, and so does parse: no run of the
\* program stays in the parser
C28_SynchronizeReturns == pc # "synchronize"

\* the loop of synchronize is left only at the end of the text, after a
\* semicolon or before a keyword: a run that stays in it is one whose error
\* is followed by a token that is none of these
SynchronizeLeftAtBoundary ==
    \A first \in Malformed, second \in Malformed \cup Wellformed :
        (RanOn(first, second) /\ pc = "synchronize") =>
            LET tokens == session.sources[1].tokens
            IN  \E i \in 2..(Len(tokens) - 1) :
                    /\ tokens[i].token_type \notin {"SEMICOLON"}
                    /\ tokens[i + 1].token_type \notin
                         {"EOF", "CLASS", "FUN", "VAR", "FOR", "IF", "WHILE", "PRINT", "RETURN"}

\* `print 1 2; print 3;`: the error is reported and the parser never returns
StaysInSynchronize ==
    /\ pc = "synchronize"
    /\ session.mode = "file"
    /\ session.sources[1].tokens =
           << T("PRINT"), Number(1), Number(2), T("SEMICOLON"),
              T("PRINT"), Number(3), T("SEMICOLON"), T("EOF") >>
    /\ interp.stdout = <<>>
    /\ Reported = << "Expect ';' after value" >>

\* ------------------------------------------------------------------------
\* Properties of the frames a lookup goes through
\* ------------------------------------------------------------------------

\* the frames at 0, 1, ... distance - 1 links out of frame e: the receiving
\* frame and the frames walked through
OnTheWay(ev) == { Frame(ev.envs, ev.env, d) : d \in 0..(ev.distance - 1) } \ {0}

\* C29: get_at changes no frame; assign_at changes the binding of the name in
\* one frame and nothing else, whatever the distance: the receiving frame and
\* the frames walked through keep their bindings and their enclosing links
C29_FramesKept ==
    /\ \A i \in GetAts : interp.frames[i].after = interp.frames[i].envs
    /\ \A i \in AssignAts :
          LET ev == interp.frames[i]
          IN  /\ \A f \in OnTheWay(ev) : ev.after[f] = ev.envs[f]
              /\ \A f \in DOMAIN ev.envs :
                    /\ ev.after[f].enclosing = ev.envs[f].enclosing
                    /\ DOMAIN ev.after[f].values = DOMAIN ev.envs[f].values
                    /\ \A n \in DOMAIN ev.envs[f].values \ {ev.name} :
                          ev.after[f].values[n] = ev.envs[f].values[n]

\* what holds: at distance 0 and 1 nothing is changed but the binding
\* written, and at any distance the receiving frame and the frame aimed at
\* keep their enclosing links and the bindings of the other names
FramesKeptNearby ==
    /\ \A i \in GetAts :
          LET ev == interp.frames[i]
          IN  /\ ev.distance <= 1 => ev.after = ev.envs
              /\ ev.after[ev.env] = ev.envs[ev.env]
              /\ ev.after[Target(ev)] = ev.envs[Target(ev)]
    /\ \A i \in AssignAts :
          LET ev == interp.frames[i]
          IN  /\ ev.distance >= 1 => ev.after[ev.env] = ev.envs[ev.env]
              /\ ev.after[Target(ev)].enclosing = ev.envs[Target(ev)].enclosing
              /\ ev.distance <= 1 =>
                    \A f \in DOMAIN ev.envs :
                        /\ ev.after[f].enclosing = ev.envs[f].enclosing
                        /\ \A n \in DOMAIN ev.envs[f].values \ {ev.name} :
                              ev.after[f].values[n] = ev.envs[f].values[n]

\* every frame strictly between the receiving frame and the frame aimed at
\* is the default frame afterwards: no bindings, no enclosing frame
WalkedFramesEmptied ==
    \A i \in GetAts \cup AssignAts :
        LET ev == interp.frames[i]
        IN  \A f \in OnTheWay(ev) \ {ev.env} : ev.after[f] = DefaultEnvironment

\* a get_at and an assign_at of distance two or more that emptied a frame
\* with bindings
GetAtEmptied ==
    \E i \in GetAts :
        LET ev == interp.frames[i]
        IN  /\ ev.distance >= 2
            /\ ev.r.kind = "Ok"
            /\ \E f \in OnTheWay(ev) : ev.envs[f].values # NoValues /\ ev.after[f] = DefaultEnvironment

\* `{ var a = 1; { var b = 2; { a = 3; } print b; } }`: the assignment
\* empties the frame of b, and the print that follows finds no b
AssignAtEmptied ==
    /\ session = File(AssignEmpties)
    /\ pc = "exited"
    /\ interp.stdout = <<>>
    /\ Len(stderr) = 1
    /\ stderr[1].msg = "Undefined variable 'b'"
    /\ \E i \in AssignAts :
          LET ev == interp.frames[i]
          IN  /\ ev.distance >= 2
              /\ ev.r.kind = "Ok"
              /\ \E f \in OnTheWay(ev) :
                    ev.envs[f].values # NoValues /\ ev.after[f] = DefaultEnvironment

\* ------------------------------------------------------------------------
\* Properties of the frame between the lines
\* ------------------------------------------------------------------------

\* C30: when interpret has returned, after the last statement or at a
\* runtime error, the current frame is the global frame, and the first
\* statement of the next line is executed in the global frame
C30_GlobalFrameBetweenLines ==
    /\ (pc = "returned" /\ history # <<>> /\ history[Len(history)].interpret) =>
           interp.curr_env = GlobalEnv
    /\ (pc = "interpret" /\ ip = 1) => interp.curr_env = GlobalEnv

\* the runtime errors of the lines run so far
Stopped ==
    { i \in DOMAIN history :
        /\ history[i].executed # <<>>
        /\ history[i].executed[Len(history[i].executed)].kind = "OperatorError" }

\* C30, a case: three lines of the REPL were stopped by a runtime error,
\* in a class declaration in two blocks in a loop in a call, in a block in a
\* method called in a block, and in a method called in a block after the
\* declaration of a subclass; the fourth line prints a global
C30_Witness ==
    /\ session = Prompt(<<DeepLine1, DeepLine2, DeepLine3, DeepLine4>>)
    /\ pc = "exited"
    /\ Stopped = {1, 2, 3}
    /\ interp.stdout = <<"global">>
    /\ interp.curr_env = GlobalEnv
    /\ \E i \in DOMAIN interp.frames :
          /\ interp.frames[i].e = "visit_class_stmt"
          /\ interp.frames[i].r.kind = "OperatorError"
          /\ interp.frames[i].previous # GlobalEnv
    /\ \E i \in ClassStatements :
          /\ interp.frames[i].previous # GlobalEnv
          /\ interp.classes[interp.frames[i].class].superclass # 0
    /\ \E i \in Blocks :
          /\ interp.frames[i].r.kind = "OperatorError"
          /\ interp.frames[i].depth >= 1
====
